---- MODULE Spec2Model ----
(***************************************************************************)
(* yomi: ingestion / merge / scheduling layer.                             *)
(*                                                                         *)
(* The model follows src/src/App.tsx (third App component, lines 1201 ff), *)
(* src/src/speech/index.ts (SpeechManager), src/src/nostr/client.ts        *)
(* (subscribeToNotes), src/unnamed/part_002 (Bluesky REST client) and the  *)
(* two streaming adapters src/src/discord/index.ts and the Misskey module  *)
(* found in src/src/i18n.ts lines 145-673.                                 *)
(*                                                                         *)
(* Execution is single threaded: every action below is one task of the     *)
(* event loop (a click handler, a timer callback, a socket event, the      *)
(* continuation of an await) run to completion, including the React        *)
(* effects that the task's state updates trigger.                          *)
(***************************************************************************)
EXTENDS Integers, Sequences, FiniteSets, TLC

(***************************************************************************)
(* Bounds of the model.                                                    *)
(***************************************************************************)
MaxNostrEvents == 2     \* distinct relay events the relays can deliver
MaxStreamNotes == 2     \* distinct notes a streaming platform can deliver
MaxBskyPosts == 2       \* posts published one by one on the polled timeline
MaxBursts == 5          \* bursts of BskyLimit posts (burst specification)
MaxTicks == 1           \* millisecond ticks of the wall clock
MaxSockets == 2         \* sockets per adapter that exist at the same time
MaxSubs == 2            \* relay subscriptions that exist at the same time
MaxStray == 1           \* pending timers whose handle the program has lost
MaxCloses == 3          \* consecutive closes counted by the backoff observer
MaxTestPosts == 2       \* synthetic posts held by the store at the same time
MaxDocTime == 2         \* created_at of relay-list and contact-list documents
MaxPackets == 3         \* documents one fetchRelayList call receives
MaxContents == 2        \* distinct texts the operator posts
MaxHeld == 3            \* notes in the store while inputs still arrive (SpecStore)
StartMs == 1999         \* wall clock when the page is loaded
PostGapMs == 1500       \* spacing of the platform timestamps given as inputs

(***************************************************************************)
(* Program constants.                                                      *)
(***************************************************************************)
PubkeyHexLen == 64
PubkeyBytes == 32
StoreCap == 200         \* newNotes.slice(0, 200)
BskyLimit == 50         \* url.searchParams.set('limit', '50')
BaseDelay == 1000       \* 1000 * Math.pow(2, reconnectAttempts)
MAX_RECONNECT_DELAY == 60000
WATCHDOG_INTERVAL == 60000
MsPerSecond == 1000     \* Math.floor(ms / 1000)

Sources == {"nostr", "bluesky", "misskey", "discord", "test"}
Adapters == {"misskey", "discord"}
InitSources == {"nostr", "bluesky", "misskey", "discord"}
AppStates == {"idle", "loading", "running", "paused"}

NoNote == <<"none", 0>>

Max(S) == CHOOSE m \in S : \A x \in S : x <= m
MinOf(a, b) == IF a <= b THEN a ELSE b

RECURSIVE Pow2(_)
Pow2(n) == IF n = 0 THEN 1 ELSE 2 * Pow2(n - 1)

(***************************************************************************)
(* Notes.  A note id is the pair <<source, k>>; the k-th item of a         *)
(* platform carries that platform's own timestamp.  Relay events carry     *)
(* created_at in seconds; the other platforms an ISO time, modelled in     *)
(* milliseconds and converted by Math.floor(getTime() / 1000).             *)
(***************************************************************************)
PostedAtMs(k) == k * PostGapMs

ToEpochSeconds(ms) == ms \div MsPerSecond

\* reply: the event carries an e tag (the tags travel with a relay note;
\* the other adapters build their notes from top-level posts only)
NostrNote(k) ==
    [id |-> <<"nostr", k>>, created_at |-> k, read |-> FALSE, source |-> "nostr",
     reply |-> FALSE, own |-> 0]

\* a kind 1 event whose tags hold ['e', <id of the post replied to>]
NostrReply(k) ==
    [id |-> <<"nostr-reply", k>>, created_at |-> k, read |-> FALSE,
     source |-> "nostr", reply |-> TRUE, own |-> 0]

PlatformNote(src, k) ==
    [id |-> <<src, k>>, created_at |-> ToEpochSeconds(PostedAtMs(k)),
     read |-> FALSE, source |-> src, reply |-> FALSE, own |-> 0]

TestNote(ms) ==
    [id |-> <<"test", ms>>, created_at |-> ToEpochSeconds(ms),
     read |-> FALSE, source |-> "test", reply |-> FALSE, own |-> 0]

\* A post of the operator's own account on platform src with text c
\* (noteToRead.pubkey is the operator's identity there; content is c).
OwnTag == [nostr |-> "nostr-own", bluesky |-> "bluesky-own", misskey |-> "misskey-own"]

OwnNote(src, k, c) ==
    [id |-> <<OwnTag[src], k>>,
     created_at |-> IF src = "nostr" THEN k ELSE ToEpochSeconds(PostedAtMs(k)),
     read |-> FALSE, source |-> src, reply |-> FALSE, own |-> c]

(***************************************************************************)
(* The unified store: notesRef.current, newest first.                      *)
(***************************************************************************)
HasId(s, id) == \E i \in 1..Len(s) : s[i].id = id

Stamps(s) == {s[i].created_at : i \in 1..Len(s)}

\* Array.prototype.sort((a, b) => b.created_at - a.created_at): stable and
\* descending.  A sorted array is returned as it is; an array whose tail is
\* sorted (the shape [note, ...sorted]) gets its head moved behind the
\* elements that are strictly newer; any other array is rebuilt bucket by
\* bucket from the greatest timestamp down, each bucket in array order.
IsSorted(s) == \A i \in 1..Len(s) - 1 : s[i].created_at >= s[i + 1].created_at

RECURSIVE SortBuckets(_, _, _)
SortBuckets(s, hi, lo) ==
    IF hi < lo THEN <<>>
    ELSE IF hi = lo THEN SelectSeq(s, LAMBDA n : n.created_at = hi)
    ELSE LET mid == (hi + lo) \div 2
         IN  SortBuckets(s, hi, mid + 1) \o SortBuckets(s, mid, lo)

MoveHead(s) ==
    LET t == Tail(s)
        p == Cardinality({i \in 1..Len(t) : t[i].created_at > s[1].created_at})
    IN  SubSeq(t, 1, p) \o <<s[1]>> \o SubSeq(t, p + 1, Len(t))

SortDesc(s) ==
    IF Len(s) <= 1 \/ IsSorted(s) THEN s
    ELSE IF IsSorted(Tail(s)) THEN MoveHead(s)
    ELSE SortBuckets(s, Max(Stamps(s)), -Max({-x : x \in Stamps(s)}))

Truncate(s) == IF Len(s) > StoreCap THEN SubSeq(s, 1, StoreCap) ELSE s

\* [note, ...notesRef.current]; sort; slice(0, 200)
InsertSorted(s, note) == Truncate(SortDesc(<<note>> \o s))

NoDuplicateIds(s) == \A i, j \in 1..Len(s) : i # j => s[i].id # s[j].id

Unread(s) == {i \in 1..Len(s) : ~s[i].read}


(***************************************************************************)
(* State.                                                                  *)
(***************************************************************************)
VARIABLES
    \* App component (React state and refs)
    appState,           \* useState<AppState>
    appStateRef,        \* appStateRef.current
    notes,              \* notesRef.current (the notes state mirrors it)
    currentNoteId,      \* useState<string | null>
    isProcessingRef,    \* isProcessingRef.current
    isMuted,            \* isMuted / isMutedRef.current
    kickTimer,          \* the 500 ms timer of the kick effect is pending
    muteDwell,          \* number of pending setTimeout(onEnd, 3000)
    myReadContent,      \* myReadContentRef.current: the texts it holds
    dedupWindow,        \* 60 s periods under way, oldest first: the clean-up
                        \* timers of myReadContent (timer) and, as an observer,
                        \* the periods begun by a skipped note
    \* SpeechManager and the browser's speech synthesis queue
    isReading,          \* SpeechManager.isReading
    onEndCallback,      \* SpeechManager.onEndCallback: NoNote or the note whose onEnd it is
    timeoutId,          \* the reading-length timer is pending
    isPaused,           \* SpeechManager.isPaused
    synthPaused,        \* window.speechSynthesis is paused
    synthQueue,         \* utterances handed to the engine and not yet ended or cancelled
    cancelPending,      \* cancelled utterances whose error event is still to be delivered
    \* wall clock in milliseconds (Date.now())
    nowMs, ticks,
    \* observers of playback
    played,             \* ids started for playback since the last start
    replayed,           \* an id was started for playback a second time
    speakOverlap,       \* an utterance was handed over while another was in the queue
    callbackRuns,       \* times the callback held by onEndCallback has been
                        \* invoked by an utterance event (counted up to 2)
    loginCall,          \* the bluesky.login call under way or last made
    bskyReplies,        \* the items of the remote timeline that are replies
    langCall,           \* what the reading language of one note is resolved from,
                        \* and the language resolved
    discarded,          \* a stream callback returned without storing a note that
                        \* the store did not hold, in a session not idle
    relayFetch,         \* the closure of one fetchRelayList call
    bskyReq,            \* the getTimeline and the peekLatest call under way
    nip,                \* a public key, its npub string and what decoding gives
    skipped,            \* ids passed over as the operator's repeated text
    dupStarted,         \* playback began for a text of the operator that was
                        \* processed (timer FALSE: read aloud) in the last 60 s
    \* handleStart: the four init functions and the join on Promise.allSettled
    initPc,             \* per source: none, login, timeline, fetching, true, false
    lateInitNostr,      \* the initNostr of an earlier handleStart call, whose
                        \* session was stopped, still awaits its fetches
    \* relay subscriptions (closures of subscribeToNotes)
    subs,               \* slot -> [active, eoseReceived, newestTimestamp, eoseTimeout]
    unsubscribeRef,     \* 0 (null) or the slot whose unsubscribe handle it holds
    \* Bluesky session, poll loop and remote timeline
    bskySession,        \* session !== null
    bskyCount,          \* posts published so far on the remote timeline
    blueskyPollingRef,  \* blueskyPollingRef.current is a live handle
    pollIntervals,      \* intervals created by setInterval and not cleared
    blueskyLastFetch,   \* blueskyLastFetchRef.current in ms, 0 for undefined
    pollPc, pollSince,  \* position of the poll tick in flight and the since it sent
    \* streaming adapters (module state of misskey and discord)
    misskeyToken,       \* accessToken !== null
    stream              \* adapter -> record of its module-level variables

appVars == <<appState, appStateRef, notes, currentNoteId, isProcessingRef, isMuted,
             kickTimer, muteDwell, myReadContent, dedupWindow, lateInitNostr>>
speechVars == <<isReading, onEndCallback, timeoutId, isPaused, synthPaused, synthQueue,
                cancelPending>>
clockVars == <<nowMs, ticks>>
obsVars == <<played, replayed, speakOverlap, skipped, dupStarted, relayFetch,
            bskyReq, nip, discarded, callbackRuns, loginCall, bskyReplies,
            langCall>>
initVars == <<initPc>>
nostrVars == <<subs, unsubscribeRef>>
bskyVars == <<bskySession, bskyCount, blueskyPollingRef, pollIntervals, blueskyLastFetch,
              pollPc, pollSince>>
streamVars == <<misskeyToken, stream>>
vars == <<appVars, speechVars, clockVars, obsVars, initVars, nostrVars, bskyVars,
          streamVars>>

(***************************************************************************)
(* Handlers are written as functions on the record of the fields they can  *)
(* touch, so that a handler calling another one composes.                  *)
(***************************************************************************)
App ==
    [appState |-> appState, appStateRef |-> appStateRef, notes |-> notes,
     currentNoteId |-> currentNoteId, isProcessingRef |-> isProcessingRef,
     isMuted |-> isMuted, muteDwell |-> muteDwell,
     myReadContent |-> myReadContent, dedupWindow |-> dedupWindow,
     lateInitNostr |-> lateInitNostr,
     skipped |-> skipped, dupStarted |-> dupStarted, relayFetch |-> relayFetch,
     bskyReq |-> bskyReq, nip |-> nip,
     isReading |-> isReading, onEndCallback |-> onEndCallback,
     timeoutId |-> timeoutId, isPaused |-> isPaused, synthPaused |-> synthPaused,
     synthQueue |-> synthQueue, cancelPending |-> cancelPending,
     played |-> played, replayed |-> replayed, speakOverlap |-> speakOverlap,
     discarded |-> discarded, callbackRuns |-> callbackRuns,
     loginCall |-> loginCall, bskyReplies |-> bskyReplies,
     langCall |-> langCall]

\* speechSynthesis.cancel(): every queued utterance is removed; each gets an
\* error (or end) event later.
SynthCancel(r) ==
    [r EXCEPT !.cancelPending = @ + Len(r.synthQueue), !.synthQueue = <<>>]

\* SpeechManager.stop()
SpeechStop(r) ==
    [SynthCancel(r) EXCEPT !.timeoutId = FALSE, !.onEndCallback = NoNote,
                           !.isReading = FALSE, !.isPaused = FALSE,
                           !.callbackRuns = 0]

\* SpeechManager.skip()
SpeechSkip(r) == SynthCancel(r)

\* SpeechManager.speak(text, lang, onEnd, timeoutSeconds); lim: a reading
\* limit is configured, so the reading-length timer is armed.
Speak(r, id, lim) ==
    LET cleared == IF r.isReading THEN SpeechStop(r)
                   ELSE [r EXCEPT !.timeoutId = FALSE, !.onEndCallback = NoNote]
    IN  [cleared EXCEPT !.timeoutId = lim, !.onEndCallback = id, !.isReading = TRUE,
                        !.callbackRuns = 0,
                        !.isPaused = FALSE, !.synthQueue = Append(@, id),
                        !.speakOverlap = @ \/ (r.synthQueue # <<>>)]

\* currentNotes.findLastIndex((n) => !n.read)
FindLastUnread(s) == Max(Unread(s))

\* notesRef.current = currentNotes.map((n, i) => i === unreadIndex ? {...n, read: true} : n)
MarkRead(s, i) == [s EXCEPT ![i].read = TRUE]

\* Is a 60 s period for text c under way; readOnly: only those begun by a
\* note that was read (the ones with a clean-up timer)
InWindow(w, c, readOnly) ==
    \E i \in 1..Len(w) : w[i].content = c /\ (readOnly => w[i].timer)

\* variant of IsRepeat that never finds the text in myReadContent
IsRepeatNever(r, note) == FALSE

\* isMyPost, and myReadContent.get(content) is set
IsRepeat(r, note) == note.own # 0 /\ note.own \in r.myReadContent

\* processNextNote()
RECURSIVE ProcessNextNote(_, _)
ProcessNextNote(r, lim) ==
    IF r.isProcessingRef THEN r
    ELSE IF Unread(r.notes) = {}
    THEN [r EXCEPT !.isProcessingRef = FALSE, !.currentNoteId = NoNote]
    ELSE LET idx == FindLastUnread(r.notes)
             note == r.notes[idx]
             id == note.id
             isMyPost == note.own # 0
             marked == [r EXCEPT !.isProcessingRef = TRUE,
                                 !.notes = MarkRead(r.notes, idx),
                                 !.currentNoteId = id]
         IN  IF IsRepeat(r, note)
             THEN LET passed ==
                          [marked EXCEPT
                              !.isProcessingRef = FALSE, !.currentNoteId = NoNote,
                              !.skipped = @ \cup {id},
                              !.dedupWindow =
                                  Append(@, [content |-> note.own, timer |-> FALSE])]
                  IN  IF passed.appStateRef = "running"
                      THEN ProcessNextNote(passed, lim)
                      ELSE passed
             ELSE LET first ==
                          IF isMyPost
                          THEN [marked EXCEPT
                                   !.myReadContent = @ \cup {note.own},
                                   !.dedupWindow =
                                       Append(@, [content |-> note.own, timer |-> TRUE])]
                          ELSE marked
                      started ==
                          [first EXCEPT
                              !.replayed = @ \/ (id \in r.played),
                              !.played = @ \cup {id},
                              !.dupStarted =
                                  [any |-> @.any \/
                                      (isMyPost /\ InWindow(r.dedupWindow, note.own, FALSE)),
                                   read |-> @.read \/
                                      (isMyPost /\ InWindow(r.dedupWindow, note.own, TRUE))]]
                  IN  IF r.isMuted
                      THEN [started EXCEPT !.muteDwell = @ + 1]
                      ELSE Speak(started, id, lim)

\* variant of OnEnd that returns without releasing the guard
OnEndHolding(r, lim) == r

\* the onEnd closure created by processNextNote
OnEnd(r, lim) ==
    LET done == [r EXCEPT !.isProcessingRef = FALSE, !.currentNoteId = NoNote]
    IN  IF done.appStateRef = "running" THEN ProcessNextNote(done, lim) ELSE done

\* utterance.onend / utterance.onerror
UtteranceHandler(r, lim) ==
    LET cleared == [r EXCEPT !.isReading = FALSE, !.timeoutId = FALSE]
    IN  IF cleared.onEndCallback # NoNote
        THEN OnEnd([cleared EXCEPT !.callbackRuns = IF @ < 2 THEN @ + 1 ELSE @], lim)
        ELSE cleared

\* setRunningIfLoading, and the same three lines in the add* functions
SetRunningIfLoading(r) ==
    IF r.appStateRef = "loading"
    THEN [r EXCEPT !.appStateRef = "running", !.appState = "running"]
    ELSE r

\* The loop of addBlueskyPosts / addMisskeyNotes / addDiscordMessages over
\* postsToAdd (a sequence of notes, in the order received).
RECURSIVE AddLoop(_, _)
AddLoop(r, batch) ==
    IF batch = <<>> THEN r
    ELSE LET note == Head(batch)
         IN  IF HasId(r.notes, note.id)
             THEN AddLoop(r, Tail(batch))
             ELSE AddLoop(SetRunningIfLoading(
                              [r EXCEPT !.notes = InsertSorted(r.notes, note)]),
                          Tail(batch))

\* postsToAdd = isInitial ? [posts[0]] : posts
AddPosts(r, batch, isInitial) ==
    IF batch = <<>> THEN r
    ELSE AddLoop(r, IF isInitial THEN <<Head(batch)>> ELSE batch)

addBlueskyPosts(r, posts, isInitial) == AddPosts(r, posts, isInitial)
addMisskeyNotes(r, batch, isInitial) == AddPosts(r, batch, isInitial)
addDiscordMessages(r, batch, isInitial) == AddPosts(r, batch, isInitial)

\* testpost(content): no look-up of the id before the insertion
testpost(r, ms, lim) ==
    LET added == [r EXCEPT !.notes = InsertSorted(r.notes, TestNote(ms))]
    IN  IF added.appStateRef = "running" /\ ~added.isProcessingRef
        THEN ProcessNextNote(added, lim)
        ELSE added

\* the callback handleStart.initNostr passes to subscribeToNotes
NostrOnNote(r, note, shouldReplace) ==
    IF HasId(r.notes, note.id) THEN r
    ELSE LET keepNotes == SelectSeq(r.notes, LAMBDA n : n.read \/ n.source # "nostr")
             newNotes == IF shouldReplace
                         THEN <<note>> \o keepNotes
                         ELSE InsertSorted(r.notes, note)
         IN  SetRunningIfLoading([r EXCEPT !.notes = newNotes])

(***************************************************************************)
(* The kick effect (useEffect on appState, notes, currentNoteId): when a   *)
(* dependency changed the pending timer is cleared and a new one is set if *)
(* the condition holds.                                                    *)
(***************************************************************************)
KickCondition(r) ==
    /\ r.appState = "running"
    /\ ~r.isProcessingRef
    /\ r.currentNoteId = NoNote
    /\ Unread(r.notes) # {}

DepsChanged(r) ==
    \/ r.appState # appState
    \/ r.notes # notes
    \/ r.currentNoteId # currentNoteId

\* Writes the record back; fired: this task was the kick timer's callback.
Commit(r, fired) ==
    \E c \in {r} :
        /\ appState' = c.appState
        /\ appStateRef' = c.appStateRef
        /\ notes' = c.notes
        /\ currentNoteId' = c.currentNoteId
        /\ isProcessingRef' = c.isProcessingRef
        /\ isMuted' = c.isMuted
        /\ muteDwell' = c.muteDwell
        /\ myReadContent' = c.myReadContent
        /\ dedupWindow' = c.dedupWindow
        /\ lateInitNostr' = c.lateInitNostr
        /\ skipped' = c.skipped
        /\ dupStarted' = c.dupStarted
        /\ relayFetch' = c.relayFetch
        /\ bskyReq' = c.bskyReq
        /\ nip' = c.nip
        /\ isReading' = c.isReading
        /\ onEndCallback' = c.onEndCallback
        /\ timeoutId' = c.timeoutId
        /\ isPaused' = c.isPaused
        /\ synthPaused' = c.synthPaused
        /\ synthQueue' = c.synthQueue
        /\ cancelPending' = c.cancelPending
        /\ played' = c.played
        /\ replayed' = c.replayed
        /\ speakOverlap' = c.speakOverlap
        /\ discarded' = c.discarded
        /\ callbackRuns' = c.callbackRuns
        /\ loginCall' = c.loginCall
        /\ bskyReplies' = c.bskyReplies
        /\ langCall' = c.langCall
        /\ kickTimer' = IF DepsChanged(c) THEN KickCondition(c)
                        ELSE IF fired THEN FALSE ELSE kickTimer

(***************************************************************************)
(* Relay subscription: the closure state of one subscribeToNotes call.     *)
(***************************************************************************)
\* maxSeen: observer, the greatest created_at among the events received
NoSub == [active |-> FALSE, eoseReceived |-> FALSE, newestTimestamp |-> 0,
          eoseTimeout |-> FALSE, maxSeen |-> 0]

NewSub == [active |-> TRUE, eoseReceived |-> FALSE, newestTimestamp |-> 0,
           eoseTimeout |-> FALSE, maxSeen |-> 0]

FreeSubs == {i \in 1..MaxSubs : ~subs[i].active}

\* the function subscribeToNotes returns
Unsubscribe(sb) == [sb EXCEPT !.active = FALSE, !.eoseTimeout = FALSE]

\* variant of Surfaces that also lets through an event as old as the newest
SurfacesNotOlder(sb, note) == note.created_at >= sb.newestTimestamp

\* does the subscription surface the event, and in which mode
Surfaces(sb, note) == note.created_at > sb.newestTimestamp

\* next: (packet) => ... of subscribeToNotes, closure state after the event
SubAfterEvent(sb, note) ==
    [sb EXCEPT !.newestTimestamp = IF Surfaces(sb, note) THEN note.created_at ELSE @,
               !.eoseTimeout = IF sb.eoseReceived THEN @ ELSE TRUE,
               !.maxSeen = IF note.created_at > @ THEN note.created_at ELSE @]

(***************************************************************************)
(* Bluesky remote timeline and the REST calls on it.                       *)
(***************************************************************************)
SeqDown(hi, lo) == [i \in 1..(hi - lo + 1) |-> hi + 1 - i]

\* getTimeline(since): the newest BskyLimit items, newest first, without
\* the replies (item.reply) and those not newer than since
getTimeline(count, since) ==
    LET lo == IF count > BskyLimit THEN count - BskyLimit + 1 ELSE 1
        feed == SeqDown(count, lo)
        kept == SelectSeq(feed, LAMBDA n : /\ n \notin bskyReplies
                                           /\ ~(since # 0 /\ PostedAtMs(n) <= since))
    IN  [i \in 1..Len(kept) |-> PlatformNote("bluesky", kept[i])]

\* peekLatest(since): the createdAt of data.feed[0], whatever the item is;
\* 0 for null
peekLatest(count, since) ==
    IF count = 0 THEN 0
    ELSE IF since # 0 /\ PostedAtMs(count) <= since THEN 0
    ELSE PostedAtMs(count)

\* blueskyLastFetchRef.current = posts[0].createdAt
NewestPostedAt(posts) == PostedAtMs(posts[1].id[2])

(***************************************************************************)
(* Streaming adapter (discord/index.ts; the Misskey module is the same     *)
(* code with noteCallback for messageCallback && currentUrl).              *)
(***************************************************************************)
SocketStates == {"free", "connecting", "open", "closing"}

InitAdapter ==
    [ws |-> 0, callback |-> FALSE, reconnectTimeout |-> 0, strayReconnects |-> 0,
     watchdogTimeout |-> FALSE, reconnectAttempts |-> 0,
     sockets |-> [i \in 1..MaxSockets |-> "free"], closes |-> 0,
     byWatchdog |-> {}, dropped |-> FALSE]

FreeSockets(ad) == {i \in 1..MaxSockets : ad.sockets[i] = "free"}

LiveSockets(ad) == {i \in 1..MaxSockets : ad.sockets[i] \in {"connecting", "open"}}

\* getReconnectDelay()
getReconnectDelay(attempts) ==
    MinOf(BaseDelay * Pow2(attempts), MAX_RECONNECT_DELAY)

\* ws.close() on the socket the module variable designates
CloseWs(ad) ==
    IF ad.ws # 0 /\ ad.sockets[ad.ws] \in {"connecting", "open"}
    THEN [ad EXCEPT !.sockets[ad.ws] = "closing"]
    ELSE ad

\* disconnectStream()
disconnectStream(ad) ==
    [CloseWs(ad) EXCEPT !.callback = FALSE, !.watchdogTimeout = FALSE,
                        !.reconnectAttempts = 0, !.reconnectTimeout = 0, !.ws = 0]

\* connectStream(url, onMessage): needs a free socket slot
connectStream(ad) ==
    LET d == disconnectStream(ad)
        s == CHOOSE i \in FreeSockets(d) : \A j \in FreeSockets(d) : i <= j
    IN  [d EXCEPT !.callback = TRUE, !.ws = s, !.sockets[s] = "connecting"]

\* ws.onopen
onopen(ad, s) ==
    [ad EXCEPT !.sockets[s] = "open", !.reconnectAttempts = 0,
               !.watchdogTimeout = TRUE, !.closes = 0]

\* variant of onclose that never schedules a reconnect
oncloseNoReconnect(ad, s) ==
    [ad EXCEPT !.sockets[s] = "free", !.ws = 0, !.watchdogTimeout = FALSE,
               !.byWatchdog = @ \ {s}]

\* ws.onclose: the handler of socket s
onclose(ad, s) ==
    LET cleared == [ad EXCEPT !.sockets[s] = "free", !.ws = 0,
                              !.watchdogTimeout = FALSE,
                              !.byWatchdog = @ \ {s}]
    IN  IF cleared.callback
        THEN [cleared EXCEPT
                 !.strayReconnects = IF ad.reconnectTimeout # 0 THEN @ + 1 ELSE @,
                 !.reconnectTimeout = getReconnectDelay(ad.reconnectAttempts),
                 !.reconnectAttempts = @ + 1,
                 !.closes = @ + 1]
        ELSE cleared

\* What ws.onmessage does with a payload that yields no note: JSON.parse
\* throws (unparsable), the type is not the one handled (unknownType), or
\* the type is handled and the author / user object is missing, so that
\* building the message throws inside the try block (incomplete).
JunkKinds == {"unparsable", "unknownType", "incomplete"}

\* variant of onmessageDropped that treats the payload as fatal
onmessageFatal(ad) == [CloseWs(ad) EXCEPT !.dropped = TRUE]

\* ws.onmessage for such a payload: resetWatchdog(), then nothing; dropped
\* is an observer
onmessageDropped(ad) == [ad EXCEPT !.watchdogTimeout = TRUE, !.dropped = TRUE]

\* the watchdog timer's callback
watchdogFired(ad) ==
    LET fired == [ad EXCEPT !.watchdogTimeout = FALSE]
    IN  IF fired.ws # 0 /\ fired.callback
        THEN [CloseWs(fired) EXCEPT
                 !.byWatchdog = IF fired.sockets[fired.ws] \in {"connecting", "open"}
                                THEN @ \cup {fired.ws} ELSE @]
        ELSE fired


(***************************************************************************)
(* NIP-19: bech32 over JavaScript's 32-bit integers.  Strings are          *)
(* sequences of one-character strings.                                     *)
(***************************************************************************)
HexDigits == <<"0", "1", "2", "3", "4", "5", "6", "7",
               "8", "9", "a", "b", "c", "d", "e", "f">>

CHARSET == <<"q", "p", "z", "r", "y", "9", "x", "8", "g", "f", "2", "t", "v", "d", "w", "0",
             "s", "3", "j", "n", "5", "4", "k", "h", "c", "e", "6", "m", "u", "a", "7", "l">>

GENERATOR == <<996825010, 642813549, 513874426, 1027748829, 705979059>>

\* c.charCodeAt(0) for the characters of the prefixes
CharCode == [n |-> 110, p |-> 112, u |-> 117, b |-> 98, s |-> 115, e |-> 101,
             c |-> 99, o |-> 111, t |-> 116, v |-> 118]

Npub == <<"n", "p", "u", "b">>

\* a ^ b for non-negative operands
RECURSIVE Xor(_, _)
Xor(a, b) ==
    IF a = 0 THEN b
    ELSE IF b = 0 THEN a
    ELSE ((a + b) % 2) + 2 * Xor(a \div 2, b \div 2)

\* acc << n on a signed 32-bit integer (1 <= n <= 8): the bits above bit 31
\* are lost and bit 31 - n becomes the sign
ShiftLeft32(acc, n) ==
    LET low == acc % Pow2(31 - n)
        sign == (acc \div Pow2(31 - n)) % 2
    IN  IF sign = 1
        THEN (low * Pow2(n) - 1073741824) - 1073741824
        ELSE low * Pow2(n)

\* the inner while loop of both conversions: (acc >> bits) & (2^width - 1)
RECURSIVE Emit(_, _, _, _)
Emit(acc, bits, out, width) ==
    IF bits >= width
    THEN Emit(acc, bits - width,
              Append(out, (acc \div Pow2(bits - width)) % Pow2(width)), width)
    ELSE [bits |-> bits, out |-> out]

\* one round of the for loop of convertBits8to5 (from 8, to 5) or of
\* convertBits5to8 (from 5, to 8) on the loop's variables
ConvertRound(st, value, from, to) ==
    LET a == ShiftLeft32(st.acc, from) + value
        e == Emit(a, st.bits + from, st.out, to)
    IN  [acc |-> a, bits |-> e.bits, out |-> e.out]

ConvertStart == [acc |-> 0, bits |-> 0, out |-> <<>>]

\* convertBits8to5 after its loop: the remaining bits are padded
Padded(st) ==
    IF st.bits > 0
    THEN Append(st.out, ShiftLeft32(st.acc, 5 - st.bits) % 32)
    ELSE st.out

\* the five generator terms for the bits of top
RECURSIVE ApplyGenerator(_, _, _)
ApplyGenerator(chk, top, i) ==
    IF i = 5 THEN chk
    ELSE ApplyGenerator(IF (top \div Pow2(i)) % 2 = 1
                        THEN Xor(chk, GENERATOR[i + 1]) ELSE chk, top, i + 1)

\* one round of polymod's loop
PolymodRound(chk, v) ==
    ApplyGenerator(Xor((chk % 33554432) * 32, v), chk \div 33554432, 0)

\* hrpExpand(hrp)
hrpExpand(hrp) ==
    [i \in 1..Len(hrp) |-> CharCode[hrp[i]] \div 32] \o <<0>> \o
    [i \in 1..Len(hrp) |-> CharCode[hrp[i]] % 32]

\* createChecksum after polymod: the six groups of polymod(values) ^ 1
ChecksumOf(chk) ==
    [i \in 1..6 |-> (Xor(chk, 1) \div Pow2(5 * (6 - i))) % 32]

\* bech32Encode's result for the 5-bit data and its checksum
Bech32String(hrp, data5bit, checksum) ==
    LET combined == data5bit \o checksum
    IN  hrp \o <<"1">> \o [i \in 1..Len(combined) |-> CHARSET[combined[i] + 1]]

\* lower.lastIndexOf('1'), counted from 0; -1 when there is none
LastIndexOfOne(str) ==
    IF \E i \in 1..Len(str) : str[i] = "1"
    THEN Max({i \in 1..Len(str) : str[i] = "1"}) - 1
    ELSE -1

\* CHARSET_MAP.get(c); -1 for undefined
CharsetValue(c) ==
    IF \E i \in 1..Len(CHARSET) : CHARSET[i] = c
    THEN (CHOOSE i \in 1..Len(CHARSET) : CHARSET[i] = c) - 1
    ELSE -1

\* parseInt(c, 16) for one hex digit
HexValue(c) == (CHOOSE i \in 1..16 : HexDigits[i] = c) - 1

\* hexToBytes(hex)
hexToBytes(hex) ==
    [i \in 1..(Len(hex) \div 2) |->
        (HexValue(hex[2 * i - 1]) * 16) + HexValue(hex[2 * i])]

UpperHexDigits == <<"0", "1", "2", "3", "4", "5", "6", "7",
                    "8", "9", "A", "B", "C", "D", "E", "F">>

\* variant of ByteHex that writes the digits in upper case
ByteHexUpper(b) == <<UpperHexDigits[(b \div 16) + 1], UpperHexDigits[(b % 16) + 1]>>

\* b.toString(16).padStart(2, '0')
ByteHex(b) == <<HexDigits[(b \div 16) + 1], HexDigits[(b % 16) + 1]>>

\* bytesToHex(bytes): the two digits of each byte, joined
bytesToHex(bytes) ==
    [i \in 1..(2 * Len(bytes)) |-> ByteHex(bytes[(i + 1) \div 2])[2 - (i % 2)]]

NullResult == [ok |-> FALSE, type |-> <<>>, data |-> <<>>]

\* nip19Decode after bech32Decode: the branches for the 32-byte kinds; every
\* other prefix met here is unknown
Nip19Result(hrp, data) ==
    IF hrp \in {Npub, <<"n", "s", "e", "c">>, <<"n", "o", "t", "e">>}
    THEN IF Len(data) # PubkeyBytes THEN NullResult
         ELSE [ok |-> TRUE, type |-> hrp, data |-> bytesToHex(data)]
    ELSE NullResult

\* the public keys tried: one digit repeated, but for one position
HexInputs ==
    {[i \in 1..PubkeyHexLen |-> IF i = pos THEN HexDigits[d] ELSE fill] :
        fill \in {"0", "7", "f"}, pos \in {1, 2, 33, 64}, d \in 1..16}

\* pc: where the two calls stand; i, conv, values and chk are the variables
\* of the loop under way
NoKey == [pc |-> "none", hex |-> <<>>, i |-> 0, conv |-> ConvertStart,
          data |-> <<>>, values |-> <<>>, chk |-> 0,
          thrown |-> FALSE, str |-> <<>>, hrp |-> <<>>, out |-> NullResult]

(***************************************************************************)
(* The reading language of the note processNextNote hands to speak.        *)
(***************************************************************************)
ReadingLanguageModes == {"autoAuthor", "autoNote", "specific", "browser"}

\* francToBcp47: the codes of franc that have a speech language
francToBcp47 == [kor |-> "ko", jpn |-> "ja"]

\* detectLanguage(text), detected being what franc(text) returns
detectLanguage(detected) ==
    IF detected = "und" THEN "en"
    ELSE IF detected \in DOMAIN francToBcp47 THEN francToBcp47[detected] ELSE "en"

\* getAuthorLanguage(pubkey), data being "none" when authorLanguages holds
\* nothing for the author and else the language with the greatest count
getAuthorLanguage(data) == IF data = "none" THEN "en" ELSE data

\* navigator.language.split('-')[0], the language given as its subtags
browserLang(navigatorLanguage) == Head(navigatorLanguage)

\* readingLang of processNextNote; forcedLang "" is null
readingLang(l) ==
    IF l.forcedLang # "" THEN l.forcedLang
    ELSE CASE l.readingLanguageMode = "autoAuthor" -> getAuthorLanguage(l.authorData)
           [] l.readingLanguageMode = "autoNote" -> detectLanguage(l.detected)
           [] l.readingLanguageMode = "specific" -> l.readingLanguageSpecific
           [] OTHER -> browserLang(l.navigatorLanguage)

NoLang == [pc |-> "none", forcedLang |-> "", readingLanguageMode |-> "browser",
           authorData |-> "none", detected |-> "und",
           readingLanguageSpecific |-> "en", navigatorLanguage |-> <<"en">>,
           lang |-> ""]

\* the settings, the author's record and the note's text one note is read
\* under: every source of a language names a language of its own
LangInputs ==
    {[NoLang EXCEPT !.pc = "note", !.forcedLang = f, !.readingLanguageMode = m,
                    !.authorData = a, !.detected = d,
                    !.readingLanguageSpecific = s, !.navigatorLanguage = n] :
        f \in {"", "fr"}, m \in ReadingLanguageModes, a \in {"none", "ja"},
        d \in {"und", "kor", "epo"}, s \in {"de", "pt"},
        n \in {<<"es", "MX">>, <<"it">>}}

\* processNextNote resolves the language and hands the note to speak
ReadingLanguage ==
    /\ langCall.pc = "note"
    /\ Commit([App EXCEPT !.langCall = [langCall EXCEPT !.pc = "spoken",
                                           !.lang = readingLang(langCall)]], FALSE)
    /\ UNCHANGED <<clockVars, initVars, nostrVars, bskyVars, streamVars>>

(***************************************************************************)
(* One Bluesky timeline request: fetch, refreshSession on 400, one retry.  *)
(***************************************************************************)
Requests == {"getTimeline", "peekLatest"}

\* what a fetch can come back with: 2xx, 400, another status, or a rejection
Responses == {"ok", "expired", "error", "throw"}

RefreshOutcomes == {"ok", "rejected", "throw"}

IdleRequest ==
    [pc |-> "idle", expired |-> FALSE, refreshCalls |-> 0, refreshed |-> FALSE,
     fetches |-> 0, status |-> "none", result |-> "none"]

\* the call: return [] / null without a session, else the first fetch
startRequest(session) ==
    IF ~session THEN [IdleRequest EXCEPT !.pc = "done", !.result = "empty"]
    ELSE [IdleRequest EXCEPT !.pc = "fetch", !.fetches = 1]

\* `if (!res.ok) return []`, else the feed is read
finish(q, status) ==
    [q EXCEPT !.pc = "done", !.status = status,
              !.result = IF status = "ok" THEN "data" ELSE "empty"]

\* variant of afterRetry that treats a 400 on the retry like the first one
afterRetryAgain(q, status) ==
    IF status = "expired"
    THEN [q EXCEPT !.pc = "refresh", !.refreshCalls = @ + 1]
    ELSE finish(q, status)

\* the retry's response: no second look at res.status === 400
afterRetry(q, status) == finish(q, status)

\* the first response; on 400 refreshSession() is called, which returns
\* false at once when there is no session to refresh
afterFetch(q, status, session) ==
    IF status = "expired"
    THEN IF session
         THEN [q EXCEPT !.expired = TRUE, !.pc = "refresh", !.refreshCalls = @ + 1]
         ELSE [finish(q, status) EXCEPT !.expired = TRUE, !.refreshCalls = @ + 1]
    ELSE finish(q, status)

\* refreshSession() has settled: `if (refreshed && session)` the retry
afterRefresh(q, outcome) ==
    IF outcome = "ok"
    THEN [q EXCEPT !.refreshed = TRUE, !.pc = "retry", !.fetches = @ + 1]
    ELSE finish(q, "expired")

(***************************************************************************)
(* fetchRelayList(pubkey): one call, its documents and its two timers.     *)
(***************************************************************************)
(***************************************************************************)
(* bluesky.login: up to MAX_RETRIES createSession requests with a delay    *)
(* that doubles.  requests, waits and responses are observers: the number  *)
(* of requests sent, the delays waited and the outcomes received, in       *)
(* order, by the call.                                                     *)
(***************************************************************************)
MAX_RETRIES == 5
FirstLoginDelay == 1000

\* res.ok; status 429; status >= 500; any other status; fetch or res.json()
\* throws
LoginOutcomes == {"ok", "rateLimited", "serverError", "refused", "thrown"}

IdleLogin ==
    [pc |-> "idle", attempt |-> 0, delay |-> 0, requests |-> 0, waits |-> <<>>,
     responses |-> <<>>, result |-> "none"]

\* login(handle, appPassword) up to the first await
loginEnter(hasSession) ==
    IF hasSession
    THEN [IdleLogin EXCEPT !.pc = "done", !.result = "true"]
    ELSE [IdleLogin EXCEPT !.pc = "fetching", !.attempt = 1,
                           !.delay = FirstLoginDelay, !.requests = 1]

\* await new Promise((resolve) => setTimeout(resolve, delay)) is entered
loginBackoff(l) == [l EXCEPT !.pc = "waiting", !.waits = Append(@, l.delay)]

\* the body of the for loop after await fetch(...createSession)
afterCreateSession(l, outcome) ==
    LET got == [l EXCEPT !.responses = Append(@, outcome)]
        failed == [got EXCEPT !.pc = "done", !.result = "false"]
    IN  IF outcome = "ok" THEN [got EXCEPT !.pc = "done", !.result = "true"]
        ELSE IF outcome \in {"rateLimited", "serverError"}
        THEN IF l.attempt < MAX_RETRIES THEN loginBackoff(got) ELSE failed
        ELSE IF outcome = "thrown"
        THEN IF l.attempt < MAX_RETRIES THEN loginBackoff(got) ELSE failed
        ELSE failed

\* delay *= 2; continue
afterBackoff(l) ==
    [l EXCEPT !.pc = "fetching", !.delay = @ * 2, !.attempt = @ + 1,
              !.requests = @ + 1]

Url(scheme, host) == [scheme |-> scheme, host |-> host]

RTag(name, url, marker) == [name |-> name, url |-> url, marker |-> marker]

\* tag lists of the kind 10002 documents a relay may return ("" is no marker)
RelayTagLists ==
    { <<>>,
      <<RTag("r", Url("wss", "a"), ""), RTag("r", Url("wss", "b"), "")>>,
      <<RTag("r", Url("wss", "a"), "read"), RTag("r", Url("wss", "b"), "write")>>,
      <<RTag("p", Url("wss", "a"), ""), RTag("r", Url("wss", "b"), "read")>> }

\* contents of the kind 3 documents: not JSON, or the keys of the object
ContactContents ==
    { [valid |-> FALSE, keys |-> <<>>],
      [valid |-> TRUE, keys |-> <<>>],
      [valid |-> TRUE, keys |-> <<Url("wss", "c")>>],
      [valid |-> TRUE, keys |-> <<Url("https", "x"), Url("ws", "d")>>] }

\* getFallbackRelays(): the static list of the locale
FallbackRelays == <<Url("wss", "fallback")>>

Urls(tags) == [i \in 1..Len(tags) |-> tags[i].url]

\* variant of IsWritable that keeps the r tags marked read
IsRTag(t) == t.name = "r"

IsWritable(t) == t.name = "r" /\ t.marker # "read"

IsWs(u) == u.scheme \in {"wss", "ws"}

\* every r tag of the document, whatever its marker
AllRelays(tags) == Urls(SelectSeq(tags, IsRTag))

\* event.tags.filter(r and not marked read).map(tag => tag[1])
WriteRelays(tags) == Urls(SelectSeq(tags, IsWritable))

\* Object.keys(content).filter(ws:// or wss://)
ContactRelays(content) == SelectSeq(content.keys, IsWs)

NoDoc == [has |-> FALSE, created_at |-> 0, relays |-> <<>>]

InitRelayFetch ==
    [called |-> FALSE, kind10002Event |-> NoDoc, kind3Event |-> NoDoc,
     resolved |-> FALSE, result |-> <<>>,
     shortTimeoutId |-> FALSE, shortPending |-> FALSE, hardPending |-> FALSE,
     subscribed |-> FALSE, packets |-> 0,
     seen10002 |-> {}, seen3 |-> {}, byShort |-> FALSE]

\* doResolve()
doResolve(f) ==
    IF f.resolved THEN f
    ELSE [f EXCEPT
             !.resolved = TRUE, !.shortPending = FALSE,
             !.result =
                 IF f.kind10002Event.has /\ Len(f.kind10002Event.relays) > 0
                 THEN f.kind10002Event.relays
                 ELSE IF f.kind3Event.has /\ Len(f.kind3Event.relays) > 0
                 THEN f.kind3Event.relays
                 ELSE FallbackRelays]

\* next, for a kind 10002 event
next10002(f, doc) ==
    IF ~f.kind10002Event.has \/ doc.created_at > f.kind10002Event.created_at
    THEN [f EXCEPT
             !.kind10002Event = [has |-> TRUE, created_at |-> doc.created_at,
                                 relays |-> WriteRelays(doc.tags)],
             !.shortTimeoutId = TRUE,
             !.shortPending = @ \/ ~f.shortTimeoutId]
    ELSE f

\* next, for a kind 3 event
next3(f, doc) ==
    IF (~f.kind3Event.has \/ doc.created_at > f.kind3Event.created_at)
       /\ doc.content.valid
    THEN [f EXCEPT
             !.kind3Event = [has |-> TRUE, created_at |-> doc.created_at,
                             relays |-> ContactRelays(doc.content)]]
    ELSE f

(***************************************************************************)
(* Initial state: the App component mounted, nothing started.              *)
(***************************************************************************)
InitApp ==
    /\ appState = "idle" /\ appStateRef = "idle"
    /\ notes = <<>> /\ currentNoteId = NoNote
    /\ isProcessingRef = FALSE /\ isMuted = FALSE
    /\ kickTimer = FALSE /\ muteDwell = 0
    /\ myReadContent = {} /\ dedupWindow = <<>>
    /\ skipped = {} /\ dupStarted = [any |-> FALSE, read |-> FALSE]
    /\ relayFetch = InitRelayFetch
    /\ bskyReq = [r \in Requests |-> IdleRequest]
    /\ isReading = FALSE /\ onEndCallback = NoNote /\ timeoutId = FALSE
    /\ isPaused = FALSE /\ synthPaused = FALSE /\ synthQueue = <<>>
    /\ cancelPending = 0
    /\ nowMs = StartMs /\ ticks = 0
    /\ played = {} /\ replayed = FALSE /\ speakOverlap = FALSE
    /\ discarded = FALSE /\ callbackRuns = 0
    /\ loginCall = IdleLogin /\ bskyReplies = {}
    /\ initPc = [src \in InitSources |-> "none"]
    /\ lateInitNostr = FALSE
    /\ subs = [i \in 1..MaxSubs |-> NoSub] /\ unsubscribeRef = 0
    /\ bskySession = FALSE /\ bskyCount = 0 /\ blueskyPollingRef = FALSE
    /\ pollIntervals = 0 /\ blueskyLastFetch = 0 /\ pollPc = "idle" /\ pollSince = 0
    /\ misskeyToken = FALSE
    /\ stream = [a \in Adapters |-> InitAdapter]

Init == InitApp /\ nip = NoKey /\ langCall = NoLang

\* a public key has been entered
InitNip ==
    /\ InitApp /\ langCall = NoLang
    /\ nip \in {[NoKey EXCEPT !.pc = "hex", !.hex = h] : h \in HexInputs}

\* a note is about to be read
InitLang == InitApp /\ nip = NoKey /\ langCall \in LangInputs

(***************************************************************************)
(* Commands.                                                               *)
(***************************************************************************)
StrayTimers == muteDwell + cancelPending

\* handleStart, up to the await on Promise.allSettled.  initDiscord has no
\* await: it runs to its return inside this task.
HandleStart(discordOn) ==
    /\ appState = "idle"
    /\ \A src \in InitSources : initPc[src] = "none"
    /\ StrayTimers <= MaxStray
    /\ discordOn => FreeSockets(stream["discord"]) # {}
    /\ initPc' = [nostr |-> "fetching",
                  bluesky |-> IF bskySession THEN "timeline" ELSE "login",
                  misskey |-> IF misskeyToken THEN "timeline" ELSE "login",
                  discord |-> IF discordOn THEN "true" ELSE "false"]
    /\ stream' = IF discordOn
                 THEN [stream EXCEPT !["discord"] =
                          [connectStream(@) EXCEPT !.closes = 0]]
                 ELSE stream
    /\ Commit([App EXCEPT !.appState = "loading", !.appStateRef = "loading",
                          !.notes = <<>>, !.currentNoteId = NoNote,
                          !.played = {}], FALSE)
    /\ UNCHANGED <<clockVars, nostrVars, bskyVars, misskeyToken>>

\* handleStop
HandleStop ==
    /\ appState # "idle"
    /\ subs' = IF unsubscribeRef # 0
               THEN [subs EXCEPT ![unsubscribeRef] = Unsubscribe(@)]
               ELSE subs
    /\ unsubscribeRef' = 0
    /\ pollIntervals' = IF blueskyPollingRef THEN pollIntervals - 1 ELSE pollIntervals
    /\ blueskyPollingRef' = FALSE
    /\ blueskyLastFetch' = 0
    /\ stream' = [a \in Adapters |-> [disconnectStream(stream[a]) EXCEPT !.closes = 0]]
    /\ Commit([SpeechStop(App) EXCEPT !.appState = "idle", !.appStateRef = "idle",
                                      !.notes = <<>>, !.currentNoteId = NoNote,
                                      !.isProcessingRef = FALSE], FALSE)
    /\ UNCHANGED <<clockVars, initVars, bskySession, bskyCount, pollPc, pollSince,
                   misskeyToken>>

\* SpeechManager.pause()
SpeechPause(r) ==
    IF r.synthQueue # <<>> /\ ~r.isPaused
    THEN [r EXCEPT !.synthPaused = TRUE, !.isPaused = TRUE]
    ELSE r

\* SpeechManager.resume()
SpeechResume(r) ==
    IF r.isPaused THEN [r EXCEPT !.synthPaused = FALSE, !.isPaused = FALSE] ELSE r

HandlePause ==
    /\ appState = "running"
    /\ Commit([SpeechPause(App) EXCEPT !.appState = "paused", !.appStateRef = "paused"],
              FALSE)
    /\ UNCHANGED <<clockVars, initVars, nostrVars, bskyVars, streamVars>>

HandleResume ==
    /\ appState = "paused"
    /\ Commit([SpeechResume(App) EXCEPT !.appState = "running",
                                        !.appStateRef = "running"], FALSE)
    /\ UNCHANGED <<clockVars, initVars, nostrVars, bskyVars, streamVars>>

HandleSkip ==
    /\ appState \in {"running", "paused"}
    /\ Commit(SpeechSkip(App), FALSE)
    /\ UNCHANGED <<clockVars, initVars, nostrVars, bskyVars, streamVars>>

HandleMute ==
    /\ LET toggled == [App EXCEPT !.isMuted = ~@]
       IN  Commit(IF toggled.isMuted /\ currentNoteId # NoNote
                  THEN SpeechSkip(toggled) ELSE toggled, FALSE)
    /\ UNCHANGED <<clockVars, initVars, nostrVars, bskyVars, streamVars>>

\* window.testpost(content)
Testpost(lim) ==
    /\ Cardinality({i \in 1..Len(notes) : notes[i].source = "test"}) < MaxTestPosts
    /\ Commit(testpost(App, nowMs, lim), FALSE)
    /\ UNCHANGED <<clockVars, initVars, nostrVars, bskyVars, streamVars>>

Tick ==
    /\ ticks < MaxTicks
    /\ nowMs' = nowMs + 1
    /\ ticks' = ticks + 1
    /\ UNCHANGED <<appVars, speechVars, obsVars, initVars, nostrVars, bskyVars,
                   streamVars>>

(***************************************************************************)
(* Timers and speech events of the scheduler.                              *)
(***************************************************************************)
\* the kick effect's setTimeout(() => processNextNote(), 500)
KickFire(lim) ==
    /\ kickTimer
    /\ Commit(ProcessNextNote(App, lim), TRUE)
    /\ UNCHANGED <<clockVars, initVars, nostrVars, bskyVars, streamVars>>

\* setTimeout(onEnd, 3000) of the mute branch
MuteDwellFire(lim) ==
    /\ muteDwell > 0
    /\ Commit(OnEnd([App EXCEPT !.muteDwell = @ - 1], lim), FALSE)
    /\ UNCHANGED <<clockVars, initVars, nostrVars, bskyVars, streamVars>>

\* the utterance at the head of the queue ends (or fails): onend / onerror
UtteranceEnd(lim) ==
    /\ synthQueue # <<>>
    /\ ~synthPaused
    /\ Commit(UtteranceHandler([App EXCEPT !.synthQueue = Tail(@)], lim), FALSE)
    /\ UNCHANGED <<clockVars, initVars, nostrVars, bskyVars, streamVars>>

\* the error event of an utterance removed by speechSynthesis.cancel()
UtteranceCancelled(lim) ==
    /\ cancelPending > 0
    /\ Commit(UtteranceHandler([App EXCEPT !.cancelPending = @ - 1], lim), FALSE)
    /\ UNCHANGED <<clockVars, initVars, nostrVars, bskyVars, streamVars>>

\* the reading-length timer: this.skip()
ReadingTimeoutFire ==
    /\ timeoutId
    /\ Commit(SpeechSkip([App EXCEPT !.timeoutId = FALSE]), FALSE)
    /\ UNCHANGED <<clockVars, initVars, nostrVars, bskyVars, streamVars>>

\* useEffect(() => { appStateRef.current = appState }, [appState]) running
\* after a state update made outside a click handler
SyncAppStateRef ==
    /\ appStateRef # appState
    /\ Commit([App EXCEPT !.appStateRef = appState], FALSE)
    /\ UNCHANGED <<clockVars, initVars, nostrVars, bskyVars, streamVars>>


(***************************************************************************)
(* handleStart's init functions: continuations of their awaits.            *)
(***************************************************************************)
\* initNostr after fetchRelayList and fetchFollowList; ok: the follow list
\* is not empty
InitNostrDone(ok) ==
    /\ initPc["nostr"] = "fetching"
    /\ IF ok
       THEN /\ FreeSubs # {}
            /\ LET i == CHOOSE f \in FreeSubs : \A g \in FreeSubs : f <= g
               IN  /\ subs' = [subs EXCEPT ![i] = NewSub]
                   /\ unsubscribeRef' = i
            /\ initPc' = [initPc EXCEPT !["nostr"] = "true"]
       ELSE /\ initPc' = [initPc EXCEPT !["nostr"] = "false"]
            /\ UNCHANGED nostrVars
    /\ Commit(App, FALSE)
    /\ UNCHANGED <<clockVars, bskyVars, streamVars>>

\* initBluesky after await bluesky.login(...)
InitBlueskyLogin(ok) ==
    /\ initPc["bluesky"] = "login"
    /\ bskySession' = ok
    /\ initPc' = [initPc EXCEPT !["bluesky"] = IF ok THEN "timeline" ELSE "false"]
    /\ Commit(App, FALSE)
    /\ UNCHANGED <<clockVars, nostrVars, bskyCount, blueskyPollingRef, pollIntervals,
                   blueskyLastFetch, pollPc, pollSince, streamVars>>

\* initBluesky after await bluesky.getTimeline(): initial load, setInterval
InitBlueskyTimeline ==
    /\ initPc["bluesky"] = "timeline"
    /\ pollIntervals <= MaxStray
    /\ LET posts == getTimeline(bskyCount, 0)
       IN  /\ Commit(addBlueskyPosts(App, posts, TRUE), FALSE)
           /\ blueskyLastFetch' = IF posts # <<>> THEN NewestPostedAt(posts)
                                  ELSE blueskyLastFetch
    /\ blueskyPollingRef' = TRUE
    /\ pollIntervals' = pollIntervals + 1
    /\ initPc' = [initPc EXCEPT !["bluesky"] = "true"]
    /\ UNCHANGED <<clockVars, nostrVars, bskySession, bskyCount, pollPc, pollSince,
                   streamVars>>

\* initMisskey after await misskey.login(...)
InitMisskeyLogin(ok) ==
    /\ initPc["misskey"] = "login"
    /\ misskeyToken' = ok
    /\ initPc' = [initPc EXCEPT !["misskey"] = IF ok THEN "timeline" ELSE "false"]
    /\ Commit(App, FALSE)
    /\ UNCHANGED <<clockVars, nostrVars, bskyVars, stream>>

\* initMisskey after await misskey.getTimeline(): k = 0 when the timeline
\* has no qualifying note, else the newest qualifying note
InitMisskeyTimeline(k) ==
    /\ initPc["misskey"] = "timeline"
    /\ FreeSockets(stream["misskey"]) # {}
    /\ Commit(addMisskeyNotes(App,
                  IF k = 0 THEN <<>> ELSE <<PlatformNote("misskey", k)>>, TRUE), FALSE)
    /\ stream' = [stream EXCEPT !["misskey"] = [connectStream(@) EXCEPT !.closes = 0]]
    /\ initPc' = [initPc EXCEPT !["misskey"] = "true"]
    /\ UNCHANGED <<clockVars, nostrVars, bskyVars, misskeyToken>>

\* handleStart after await Promise.allSettled([...])
StartJoin ==
    /\ \A src \in InitSources : initPc[src] \in {"true", "false"}
    /\ initPc' = [src \in InitSources |-> "none"]
    /\ LET hasAnySource == \E src \in InitSources : initPc[src] = "true"
       IN  Commit(IF ~hasAnySource THEN [App EXCEPT !.appState = "idle"]
                  ELSE IF appStateRef # "running"
                  THEN [App EXCEPT !.appStateRef = "running", !.appState = "running"]
                  ELSE App, FALSE)
    /\ UNCHANGED <<clockVars, nostrVars, bskyVars, streamVars>>

\* handleStart pressed again after a stop, while the initNostr of the stopped
\* call still awaits fetchRelayList / fetchFollowList and its other three
\* init functions have returned false (sources not configured)
HandleRestart ==
    /\ appState = "idle"
    /\ ~lateInitNostr
    /\ initPc["nostr"] = "fetching"
    /\ \A src \in InitSources \ {"nostr"} : initPc[src] = "false"
    /\ StrayTimers <= MaxStray
    /\ initPc' = [nostr |-> "fetching",
                  bluesky |-> IF bskySession THEN "timeline" ELSE "login",
                  misskey |-> IF misskeyToken THEN "timeline" ELSE "login",
                  discord |-> "false"]
    /\ Commit([App EXCEPT !.appState = "loading", !.appStateRef = "loading",
                          !.notes = <<>>, !.currentNoteId = NoNote,
                          !.played = {}, !.lateInitNostr = TRUE], FALSE)
    /\ UNCHANGED <<clockVars, nostrVars, bskyVars, streamVars>>

\* the initNostr of the stopped call resumes after its fetches, and with it
\* that call's continuation after Promise.allSettled (initNostr was the last
\* of its four promises to settle)
LateInitNostrDone(ok) ==
    /\ lateInitNostr
    /\ IF ok
       THEN /\ FreeSubs # {}
            /\ LET i == CHOOSE f \in FreeSubs : \A g \in FreeSubs : f <= g
               IN  /\ subs' = [subs EXCEPT ![i] = NewSub]
                   /\ unsubscribeRef' = i
            /\ Commit(IF appStateRef # "running"
                      THEN [App EXCEPT !.appStateRef = "running",
                                       !.appState = "running",
                                       !.lateInitNostr = FALSE]
                      ELSE [App EXCEPT !.lateInitNostr = FALSE], FALSE)
       ELSE /\ UNCHANGED nostrVars
            /\ Commit([App EXCEPT !.appState = "idle", !.lateInitNostr = FALSE], FALSE)
    /\ UNCHANGED <<clockVars, initVars, bskyVars, streamVars>>

(***************************************************************************)
(* Relay events.                                                           *)
(***************************************************************************)
\* next: (packet) => ... for a kind 1 event on subscription i
RelayNext(i, note) ==
    /\ subs[i].active
    /\ subs' = [subs EXCEPT ![i] = SubAfterEvent(@, note)]
    /\ Commit(IF Surfaces(subs[i], note)
              THEN NostrOnNote(App, note, ~subs[i].eoseReceived)
              ELSE App, FALSE)
    /\ UNCHANGED <<clockVars, initVars, unsubscribeRef, bskyVars, streamVars>>

\* top-level post k arrives on subscription i
NostrEvent(i, k) == RelayNext(i, NostrNote(k))

\* a reply with timestamp k arrives on subscription i
NostrReplyEvent(i, k) == RelayNext(i, NostrReply(k))

\* a post of the operator with text c and timestamp k arrives on subscription i
NostrOwnEvent(i, k, c) == RelayNext(i, OwnNote("nostr", k, c))

\* markEoseReceived, the callback of eoseTimeout
EoseTimeoutFire(i) ==
    /\ subs[i].eoseTimeout
    /\ subs' = [subs EXCEPT ![i].eoseReceived = TRUE, ![i].eoseTimeout = FALSE]
    /\ Commit(App, FALSE)
    /\ UNCHANGED <<clockVars, initVars, unsubscribeRef, bskyVars, streamVars>>

(***************************************************************************)
(* Bluesky poll loop (the setInterval callback, in three tasks).           *)
(***************************************************************************)
\* one post is published on the remote timeline
BskyPublish ==
    /\ bskyCount < MaxBskyPosts
    /\ bskyCount' = bskyCount + 1
    /\ Commit(App, FALSE)
    /\ UNCHANGED <<clockVars, initVars, nostrVars, bskySession, blueskyPollingRef,
                   pollIntervals, blueskyLastFetch, pollPc, pollSince, streamVars>>

\* an account the user follows replies to another one: the reply is an item
\* of the user's home timeline
BskyPublishReply ==
    /\ bskyCount < MaxBskyPosts
    /\ bskyCount' = bskyCount + 1
    /\ Commit([App EXCEPT !.bskyReplies = @ \cup {bskyCount + 1}], FALSE)
    /\ UNCHANGED <<clockVars, initVars, nostrVars, bskySession, blueskyPollingRef,
                   pollIntervals, blueskyLastFetch, pollPc, pollSince, streamVars>>

\* the interval fires: up to await bluesky.peekLatest(...)
PollTick ==
    /\ pollIntervals > 0
    /\ pollPc = "idle"
    /\ appStateRef = "running"
    /\ pollPc' = "peek"
    /\ pollSince' = blueskyLastFetch
    /\ Commit(App, FALSE)
    /\ UNCHANGED <<clockVars, initVars, nostrVars, bskySession, bskyCount,
                   blueskyPollingRef, pollIntervals, blueskyLastFetch, streamVars>>

\* after await peekLatest: up to await bluesky.getTimeline(...)
PollPeekDone ==
    /\ pollPc = "peek"
    /\ IF peekLatest(bskyCount, pollSince) = 0
       THEN pollPc' = "idle" /\ pollSince' = 0
       ELSE pollPc' = "fetch" /\ pollSince' = blueskyLastFetch
    /\ Commit(App, FALSE)
    /\ UNCHANGED <<clockVars, initVars, nostrVars, bskySession, bskyCount,
                   blueskyPollingRef, pollIntervals, blueskyLastFetch, streamVars>>

\* after await getTimeline
PollFetchDone ==
    /\ pollPc = "fetch"
    /\ LET newPosts == getTimeline(bskyCount, pollSince)
       IN  /\ Commit(addBlueskyPosts(App, newPosts, FALSE), FALSE)
           /\ blueskyLastFetch' = IF newPosts # <<>> THEN NewestPostedAt(newPosts)
                                  ELSE blueskyLastFetch
    /\ pollPc' = "idle"
    /\ pollSince' = 0
    /\ UNCHANGED <<clockVars, initVars, nostrVars, bskySession, bskyCount,
                   blueskyPollingRef, pollIntervals, streamVars>>

(***************************************************************************)
(* Streaming adapters: socket events and timers.                           *)
(***************************************************************************)
\* the callbacks handleStart registers with connectStream
StreamCallback(r, a, note) ==
    IF r.appStateRef # "running"
    THEN [r EXCEPT !.discarded =
             @ \/ (r.appState # "idle" /\ ~HasId(r.notes, note.id))]
    ELSE IF a = "misskey" THEN addMisskeyNotes(r, <<note>>, FALSE)
    ELSE addDiscordMessages(r, <<note>>, FALSE)

StreamOpen(a, s) ==
    /\ stream[a].sockets[s] = "connecting"
    /\ stream' = [stream EXCEPT ![a] = onopen(@, s)]
    /\ Commit(App, FALSE)
    /\ UNCHANGED <<clockVars, initVars, nostrVars, bskyVars, misskeyToken>>

\* the close event of socket s: the peer closed or failed, or ws.close()
StreamClose(a, s) ==
    /\ stream[a].sockets[s] # "free"
    /\ stream[a].closes < MaxCloses
    /\ stream[a].reconnectTimeout # 0 /\ stream[a].callback
           => stream[a].strayReconnects < MaxStray
    /\ stream' = [stream EXCEPT ![a] = onclose(@, s)]
    /\ Commit(App, FALSE)
    /\ UNCHANGED <<clockVars, initVars, nostrVars, bskyVars, misskeyToken>>

\* ws.onmessage with qualifying note k: resetWatchdog, then the callback
StreamNext(a, s, note) ==
    /\ stream[a].sockets[s] = "open"
    /\ stream' = [stream EXCEPT ![a].watchdogTimeout = TRUE]
    /\ Commit(IF stream[a].callback
              THEN StreamCallback(App, a, note)
              ELSE App, FALSE)
    /\ UNCHANGED <<clockVars, initVars, nostrVars, bskyVars, misskeyToken>>

StreamMessage(a, s, k) == StreamNext(a, s, PlatformNote(a, k))

\* ws.onmessage with a payload of one of the JunkKinds
StreamJunk(a, s, kind) ==
    /\ stream[a].sockets[s] = "open"
    /\ stream' = [stream EXCEPT ![a] = onmessageDropped(@)]
    /\ Commit(App, FALSE)
    /\ UNCHANGED <<clockVars, initVars, nostrVars, bskyVars, misskeyToken>>

\* the operator's own note with text c arrives on socket s
StreamOwnMessage(a, s, k, c) == StreamNext(a, s, OwnNote(a, k, c))

\* 60 s have passed since the oldest period under way began; for a note that
\* was read this is setTimeout(() => myReadContent.delete(content), 60000)
DedupWindowElapse ==
    /\ dedupWindow # <<>>
    /\ Commit([App EXCEPT
                  !.dedupWindow = Tail(@),
                  !.myReadContent =
                      IF Head(dedupWindow).timer
                      THEN @ \ {Head(dedupWindow).content}
                      ELSE @], FALSE)
    /\ UNCHANGED <<clockVars, initVars, nostrVars, bskyVars, streamVars>>

\* npubEncode(hex): the length check, hexToBytes, and bech32Encode up to
\* the loop of convertBits8to5
NpubEncodeCall ==
    /\ nip.pc = "hex"
    /\ Commit([App EXCEPT !.nip =
                  IF Len(nip.hex) # PubkeyHexLen
                  THEN [@ EXCEPT !.pc = "encoded", !.thrown = TRUE]
                  ELSE [@ EXCEPT !.pc = "enc8to5", !.data = hexToBytes(nip.hex),
                                 !.i = 1, !.conv = ConvertStart]], FALSE)
    /\ UNCHANGED <<clockVars, initVars, nostrVars, bskyVars, streamVars>>

\* one round of the loop of convertBits8to5 or of convertBits5to8
ConvertStep ==
    /\ nip.pc \in {"enc8to5", "dec5to8"}
    /\ nip.i <= Len(nip.data)
    /\ Commit([App EXCEPT !.nip =
                  [@ EXCEPT !.i = @ + 1,
                            !.conv = IF nip.pc = "enc8to5"
                                     THEN ConvertRound(@, nip.data[nip.i], 8, 5)
                                     ELSE ConvertRound(@, nip.data[nip.i], 5, 8)]],
              FALSE)
    /\ UNCHANGED <<clockVars, initVars, nostrVars, bskyVars, streamVars>>

\* convertBits8to5 returns; createChecksum up to the loop of polymod
EncodeChecksumStart ==
    /\ nip.pc = "enc8to5" /\ nip.i > Len(nip.data)
    /\ Commit([App EXCEPT !.nip =
                  [@ EXCEPT !.pc = "encsum", !.data = Padded(nip.conv),
                            !.values = hrpExpand(Npub) \o Padded(nip.conv)
                                           \o <<0, 0, 0, 0, 0, 0>>,
                            !.chk = 1, !.i = 1]], FALSE)
    /\ UNCHANGED <<clockVars, initVars, nostrVars, bskyVars, streamVars>>

\* one round of the loop of polymod
PolymodStep ==
    /\ nip.pc \in {"encsum", "decsum"}
    /\ nip.i <= Len(nip.values)
    /\ Commit([App EXCEPT !.nip =
                  [@ EXCEPT !.i = @ + 1,
                            !.chk = PolymodRound(@, nip.values[nip.i])]], FALSE)
    /\ UNCHANGED <<clockVars, initVars, nostrVars, bskyVars, streamVars>>

\* polymod returns; createChecksum, bech32Encode and npubEncode return
NpubEncodeReturn ==
    /\ nip.pc = "encsum" /\ nip.i > Len(nip.values)
    /\ Commit([App EXCEPT !.nip =
                  [@ EXCEPT !.pc = "encoded",
                            !.str = Bech32String(Npub, nip.data, ChecksumOf(nip.chk))]],
              FALSE)
    /\ UNCHANGED <<clockVars, initVars, nostrVars, bskyVars, streamVars>>

\* nip19Decode(str) on the string npubEncode returned: bech32Decode up to
\* the loop of polymod in verifyChecksum
Nip19DecodeCall ==
    /\ nip.pc = "encoded" /\ ~nip.thrown
    /\ LET sepIndex == LastIndexOfOne(nip.str)
           dataStr == SubSeq(nip.str, sepIndex + 2, Len(nip.str))
           data5bit == [i \in 1..Len(dataStr) |-> CharsetValue(dataStr[i])]
       IN  Commit([App EXCEPT !.nip =
                      IF \/ sepIndex < 1
                         \/ sepIndex + 7 > Len(nip.str)
                         \/ \E i \in 1..Len(data5bit) : data5bit[i] = -1
                      THEN [@ EXCEPT !.pc = "decoded", !.out = NullResult]
                      ELSE [@ EXCEPT !.pc = "decsum",
                                     !.hrp = SubSeq(nip.str, 1, sepIndex),
                                     !.data = data5bit,
                                     !.values = hrpExpand(SubSeq(nip.str, 1, sepIndex))
                                                    \o data5bit,
                                     !.chk = 1, !.i = 1]], FALSE)
    /\ UNCHANGED <<clockVars, initVars, nostrVars, bskyVars, streamVars>>

\* verifyChecksum returns: null, or the checksum is cut off and the loop of
\* convertBits5to8 begins
VerifyChecksumReturn ==
    /\ nip.pc = "decsum" /\ nip.i > Len(nip.values)
    /\ Commit([App EXCEPT !.nip =
                  IF nip.chk # 1
                  THEN [@ EXCEPT !.pc = "decoded", !.out = NullResult]
                  ELSE [@ EXCEPT !.pc = "dec5to8",
                                 !.data = SubSeq(nip.data, 1, Len(nip.data) - 6),
                                 !.i = 1, !.conv = ConvertStart]], FALSE)
    /\ UNCHANGED <<clockVars, initVars, nostrVars, bskyVars, streamVars>>

\* convertBits5to8 and bech32Decode return; nip19Decode returns
Nip19DecodeReturn ==
    /\ nip.pc = "dec5to8" /\ nip.i > Len(nip.data)
    /\ Commit([App EXCEPT !.nip =
                  [@ EXCEPT !.pc = "decoded",
                            !.out = Nip19Result(nip.hrp, nip.conv.out)]], FALSE)
    /\ UNCHANGED <<clockVars, initVars, nostrVars, bskyVars, streamVars>>

\* getTimeline(since) or peekLatest(since) is called
TimelineRequest(r) ==
    /\ bskyReq[r].pc \in {"idle", "done"}
    /\ Commit([App EXCEPT !.bskyReq[r] = startRequest(bskySession)], FALSE)
    /\ UNCHANGED <<clockVars, initVars, nostrVars, bskyVars, streamVars>>

\* the first fetch settles
TimelineResponse(r, status) ==
    /\ bskyReq[r].pc = "fetch"
    /\ Commit([App EXCEPT !.bskyReq[r] = afterFetch(@, status, bskySession)], FALSE)
    /\ UNCHANGED <<clockVars, initVars, nostrVars, bskyVars, streamVars>>

\* the refreshSession fetch settles: a new session, a rejection that clears
\* the session, or an exception that leaves it
RefreshResponse(r, outcome) ==
    /\ bskyReq[r].pc = "refresh"
    /\ Commit([App EXCEPT !.bskyReq[r] = afterRefresh(@, outcome)], FALSE)
    /\ bskySession' = IF outcome = "ok" THEN TRUE
                      ELSE IF outcome = "rejected" THEN FALSE
                      ELSE bskySession
    /\ UNCHANGED <<clockVars, initVars, nostrVars, bskyCount, blueskyPollingRef,
                   pollIntervals, blueskyLastFetch, pollPc, pollSince, streamVars>>

\* the retry settles
RetryResponse(r, status) ==
    /\ bskyReq[r].pc = "retry"
    /\ Commit([App EXCEPT !.bskyReq[r] = afterRetry(@, status)], FALSE)
    /\ UNCHANGED <<clockVars, initVars, nostrVars, bskyVars, streamVars>>

\* fetchRelayList(pubkey) is called: the subscription and the 5 s timer
FetchRelayList ==
    /\ ~relayFetch.called
    /\ Commit([App EXCEPT !.relayFetch =
                  [@ EXCEPT !.called = TRUE, !.subscribed = TRUE,
                            !.hardPending = TRUE]], FALSE)
    /\ UNCHANGED <<clockVars, initVars, nostrVars, bskyVars, streamVars>>

\* a relay delivers a kind 10002 document
RelayListPacket(t, tags) ==
    /\ relayFetch.subscribed /\ relayFetch.packets < MaxPackets
    /\ LET doc == [created_at |-> t, tags |-> tags]
           f == next10002(relayFetch, doc)
       IN  Commit([App EXCEPT !.relayFetch =
                      [f EXCEPT !.packets = @ + 1,
                                !.seen10002 = IF f.resolved THEN @ ELSE @ \cup {doc}]],
                  FALSE)
    /\ UNCHANGED <<clockVars, initVars, nostrVars, bskyVars, streamVars>>

\* a relay delivers a kind 3 document
ContactListPacket(t, content) ==
    /\ relayFetch.subscribed /\ relayFetch.packets < MaxPackets
    /\ LET doc == [created_at |-> t, content |-> content]
           f == next3(relayFetch, doc)
       IN  Commit([App EXCEPT !.relayFetch =
                      [f EXCEPT !.packets = @ + 1,
                                !.seen3 = IF f.resolved THEN @ ELSE @ \cup {doc}]],
                  FALSE)
    /\ UNCHANGED <<clockVars, initVars, nostrVars, bskyVars, streamVars>>

\* the 1000 ms timer started by the first kind 10002 document
ShortTimeoutFire ==
    /\ relayFetch.shortPending
    /\ Commit([App EXCEPT !.relayFetch =
                  [doResolve([@ EXCEPT !.shortPending = FALSE])
                      EXCEPT !.byShort = ~relayFetch.resolved]], FALSE)
    /\ UNCHANGED <<clockVars, initVars, nostrVars, bskyVars, streamVars>>

\* the 5000 ms timer
HardTimeoutFire ==
    /\ relayFetch.hardPending
    /\ Commit([App EXCEPT !.relayFetch =
                  doResolve([@ EXCEPT !.hardPending = FALSE])], FALSE)
    /\ UNCHANGED <<clockVars, initVars, nostrVars, bskyVars, streamVars>>

\* complete: the relays have no more stored events
RelayListComplete ==
    /\ relayFetch.subscribed
    /\ Commit([App EXCEPT !.relayFetch =
                  doResolve([@ EXCEPT !.subscribed = FALSE])], FALSE)
    /\ UNCHANGED <<clockVars, initVars, nostrVars, bskyVars, streamVars>>

\* bluesky.login is called
LoginCall ==
    /\ loginCall.pc \in {"idle", "done"}
    /\ Commit([App EXCEPT !.loginCall = loginEnter(bskySession)], FALSE)
    /\ UNCHANGED <<clockVars, initVars, nostrVars, bskyVars, streamVars>>

\* the createSession request settles
LoginResponse(outcome) ==
    /\ loginCall.pc = "fetching"
    /\ bskySession' = (outcome = "ok")
    /\ Commit([App EXCEPT !.loginCall = afterCreateSession(@, outcome)], FALSE)
    /\ UNCHANGED <<clockVars, initVars, nostrVars, bskyCount, blueskyPollingRef,
                   pollIntervals, blueskyLastFetch, pollPc, pollSince, streamVars>>

\* the delay between two attempts has passed
LoginBackoffElapsed ==
    /\ loginCall.pc = "waiting"
    /\ Commit([App EXCEPT !.loginCall = afterBackoff(@)], FALSE)
    /\ UNCHANGED <<clockVars, initVars, nostrVars, bskyVars, streamVars>>

WatchdogFire(a) ==
    /\ stream[a].watchdogTimeout
    /\ stream' = [stream EXCEPT ![a] = watchdogFired(@)]
    /\ Commit(App, FALSE)
    /\ UNCHANGED <<clockVars, initVars, nostrVars, bskyVars, misskeyToken>>

\* the reconnect timer's callback
reconnectFired(ad, loggedIn) ==
    IF ad.callback /\ loggedIn THEN connectStream(ad) ELSE ad

\* the timer whose handle reconnectTimeout holds
ReconnectFire(a) ==
    /\ stream[a].reconnectTimeout # 0
    /\ stream[a].callback => FreeSockets(stream[a]) # {}
    /\ stream' = [stream EXCEPT ![a] =
                     reconnectFired([@ EXCEPT !.reconnectTimeout = 0],
                                    a = "discord" \/ misskeyToken)]
    /\ Commit(App, FALSE)
    /\ UNCHANGED <<clockVars, initVars, nostrVars, bskyVars, misskeyToken>>

\* a reconnect timer whose handle was overwritten
StrayReconnectFire(a) ==
    /\ stream[a].strayReconnects > 0
    /\ stream[a].callback => FreeSockets(stream[a]) # {}
    /\ stream' = [stream EXCEPT ![a] =
                     reconnectFired([@ EXCEPT !.strayReconnects = @ - 1],
                                    a = "discord" \/ misskeyToken)]
    /\ Commit(App, FALSE)
    /\ UNCHANGED <<clockVars, initVars, nostrVars, bskyVars, misskeyToken>>

\* posts are published in a burst that fills one getTimeline page
BskyBurst ==
    /\ bskyCount + BskyLimit <= MaxBursts * BskyLimit
    /\ bskyCount' = bskyCount + BskyLimit
    /\ Commit(App, FALSE)
    /\ UNCHANGED <<clockVars, initVars, nostrVars, bskySession, blueskyPollingRef,
                   pollIntervals, blueskyLastFetch, pollPc, pollSince, streamVars>>

(***************************************************************************)
(* Specifications.  The components are independent of each other, so each  *)
(* specification runs the whole program with a part of its environment:    *)
(*   Spec        the reading scheduler with the relay source               *)
(*   SpecStore   the store fed by all four sources in one session          *)
(*   SpecStream  a streaming adapter under start, stop and the network     *)
(*   SpecRelay   a relay-only session with posts and replies               *)
(*   SpecTest    the debug post on top of a relay-only session             *)
(*   SpecCap     the store filled to its cap by bursts of Bluesky posts    *)
(*   SpecEvict   playback while bursts evict a redelivered message         *)
(*   SpecRestart a relay-only session that is stopped and started again    *)
(*   SpecLive    a relay-only session whose timers and speech events arrive*)
(*   SpecStreamLive  an adapter whose timers and close events arrive       *)
(*   SpecJunk    a streaming adapter receiving payloads that yield no note *)
(*   SpecLogin   the Bluesky login and the answers of the server           *)
(*   SpecPoll    the Bluesky poll loop on a timeline of posts and replies  *)
(*   SpecLang    the reading language of one note under each setting       *)
(***************************************************************************)
Scheduler ==
    \/ \E lim \in BOOLEAN : KickFire(lim)
    \/ \E lim \in BOOLEAN : MuteDwellFire(lim)
    \/ \E lim \in BOOLEAN : UtteranceEnd(lim)
    \/ \E lim \in BOOLEAN : UtteranceCancelled(lim)
    \/ ReadingTimeoutFire
    \/ SyncAppStateRef

Relay ==
    \/ \E i \in 1..MaxSubs, k \in 1..MaxNostrEvents : NostrEvent(i, k)
    \/ \E i \in 1..MaxSubs : EoseTimeoutFire(i)

Poll ==
    \/ PollTick
    \/ PollPeekDone
    \/ PollFetchDone

Streams(a) ==
    \/ \E s \in 1..MaxSockets : StreamOpen(a, s)
    \/ \E s \in 1..MaxSockets : StreamClose(a, s)
    \/ \E s \in 1..MaxSockets, k \in 1..MaxStreamNotes : StreamMessage(a, s, k)
    \/ WatchdogFire(a)
    \/ ReconnectFire(a)
    \/ StrayReconnectFire(a)

\* Spec: only the relay source is configured and reachable
Next ==
    \/ HandleStart(FALSE)
    \/ HandleStop
    \/ HandlePause
    \/ HandleResume
    \/ HandleSkip
    \/ HandleMute
    \/ \E ok \in BOOLEAN : InitNostrDone(ok)
    \/ InitBlueskyLogin(FALSE)
    \/ InitMisskeyLogin(FALSE)
    \/ StartJoin
    \/ Scheduler
    \/ Relay

Spec == Init /\ [][Next]_vars

\* SpecStore: the four sources all connect and deliver in one session, while
\* the store holds fewer than MaxHeld notes; playback is unmuted and unlimited
Room == Len(notes) < MaxHeld

NextStore ==
    \/ HandleStart(TRUE)
    \/ InitNostrDone(TRUE)
    \/ InitBlueskyLogin(TRUE)
    \/ InitBlueskyTimeline
    \/ InitMisskeyLogin(TRUE)
    \/ \E k \in 0..MaxStreamNotes : InitMisskeyTimeline(k)
    \/ StartJoin
    \/ KickFire(FALSE)
    \/ UtteranceEnd(FALSE)
    \/ \E i \in 1..MaxSubs, k \in 1..MaxNostrEvents : Room /\ NostrEvent(i, k)
    \/ \E i \in 1..MaxSubs : EoseTimeoutFire(i)
    \/ BskyPublish
    \/ Poll
    \/ \E a \in Adapters, s \in 1..MaxSockets : StreamOpen(a, s)
    \/ \E a \in Adapters, s \in 1..MaxSockets, k \in 1..MaxStreamNotes :
           Room /\ StreamMessage(a, s, k)

SpecStore == Init /\ [][NextStore]_vars

\* SpecStream: the adapters alone; the other sources fail to initialise
NextStream ==
    \/ HandleStart(TRUE)
    \/ HandleStop
    \/ InitNostrDone(FALSE)
    \/ InitBlueskyLogin(FALSE)
    \/ InitMisskeyLogin(FALSE)
    \/ StartJoin
    \/ Streams("discord")

SpecStream == Init /\ [][NextStream]_vars

\* SpecStreamLive: the same session without inbound messages (they only
\* re-arm the watchdog that onopen has armed), in which every pending
\* reconnect timer fires and the close event of every socket that ws.close()
\* was called on is delivered
NextStreamLive ==
    \/ HandleStart(TRUE)
    \/ HandleStop
    \/ InitNostrDone(FALSE)
    \/ InitBlueskyLogin(FALSE)
    \/ InitMisskeyLogin(FALSE)
    \/ StartJoin
    \/ \E s \in 1..MaxSockets : StreamOpen("discord", s)
    \/ \E s \in 1..MaxSockets : StreamClose("discord", s)
    \/ WatchdogFire("discord")
    \/ ReconnectFire("discord")
    \/ StrayReconnectFire("discord")

CloseEventArrives(a) ==
    \E s \in 1..MaxSockets : stream[a].sockets[s] = "closing" /\ StreamClose(a, s)

ReconnectTimersFire ==
    /\ WF_vars(ReconnectFire("discord"))
    /\ WF_vars(StrayReconnectFire("discord"))
    /\ WF_vars(CloseEventArrives("discord"))

SpecStreamLive == Init /\ [][NextStreamLive]_vars /\ ReconnectTimersFire

\* SpecJunk: sessions of the bridge adapter whose peer also sends payloads
\* that yield no message
NextJunk ==
    \/ HandleStart(TRUE)
    \/ HandleStop
    \/ InitNostrDone(FALSE)
    \/ InitBlueskyLogin(FALSE)
    \/ InitMisskeyLogin(FALSE)
    \/ StartJoin
    \/ \E s \in 1..MaxSockets : StreamOpen("discord", s)
    \/ \E s \in 1..MaxSockets : StreamClose("discord", s)
    \/ \E s \in 1..MaxSockets : StreamMessage("discord", s, 1)
    \/ \E s \in 1..MaxSockets, kind \in JunkKinds : StreamJunk("discord", s, kind)
    \/ WatchdogFire("discord")
    \/ ReconnectFire("discord")
    \/ StrayReconnectFire("discord")

SpecJunk == Init /\ [][NextJunk]_vars

\* SpecLogin: calls of bluesky.login and what the server answers
NextLogin ==
    \/ LoginCall
    \/ \E outcome \in LoginOutcomes : LoginResponse(outcome)
    \/ LoginBackoffElapsed

SpecLogin == Init /\ [][NextLogin]_vars

\* SpecPoll: a Bluesky-only session whose timeline receives posts and
\* replies while the poll loop runs
NextPoll ==
    \/ HandleStart(FALSE)
    \/ InitNostrDone(FALSE)
    \/ InitBlueskyLogin(TRUE)
    \/ InitBlueskyTimeline
    \/ InitMisskeyLogin(FALSE)
    \/ StartJoin
    \/ KickFire(FALSE)
    \/ UtteranceEnd(FALSE)
    \/ BskyPublish
    \/ BskyPublishReply
    \/ Poll

SpecPoll == Init /\ [][NextPoll]_vars

\* SpecRelay: a relay-only session whose relays deliver posts and replies
NextRelay ==
    \/ HandleStart(FALSE)
    \/ HandleStop
    \/ InitNostrDone(TRUE)
    \/ InitBlueskyLogin(FALSE)
    \/ InitMisskeyLogin(FALSE)
    \/ StartJoin
    \/ KickFire(FALSE)
    \/ UtteranceEnd(FALSE)
    \/ Relay
    \/ \E i \in 1..MaxSubs, k \in 1..MaxNostrEvents : NostrReplyEvent(i, k)

SpecRelay == Init /\ [][NextRelay]_vars

\* The operator's own posts, arriving over the relay subscription and the
\* Misskey stream, and the 60 s periods of the repeated-text check.
NextDedup ==
    \/ HandleStart(FALSE)
    \/ InitNostrDone(TRUE)
    \/ InitBlueskyLogin(FALSE)
    \/ InitMisskeyLogin(TRUE)
    \/ InitMisskeyTimeline(0)
    \/ StartJoin
    \/ KickFire(FALSE)
    \/ UtteranceEnd(FALSE)
    \/ EoseTimeoutFire(1)
    \/ StreamOpen("misskey", 1)
    \/ \E k \in 1..MaxNostrEvents, c \in 1..MaxContents : NostrOwnEvent(1, k, c)
    \/ \E c \in 1..MaxContents : StreamOwnMessage("misskey", 1, 1, c)
    \/ DedupWindowElapse

SpecDedup == Init /\ [][NextDedup]_vars

\* npubEncode followed by nip19Decode on each of the keys of HexInputs.
NextNip ==
    \/ NpubEncodeCall
    \/ ConvertStep
    \/ EncodeChecksumStart
    \/ PolymodStep
    \/ NpubEncodeReturn
    \/ Nip19DecodeCall
    \/ VerifyChecksumReturn
    \/ Nip19DecodeReturn

SpecNip == InitNip /\ [][NextNip]_vars

\* The reading language of one note under each of LangInputs.
NextLang == ReadingLanguage

SpecLang == InitLang /\ [][NextLang]_vars

\* The two Bluesky timeline requests, each called again and again, against
\* a server that answers each fetch in any way.
NextAuth ==
    \/ HandleStart(FALSE)
    \/ InitNostrDone(FALSE)
    \/ \E ok \in BOOLEAN : InitBlueskyLogin(ok)
    \/ InitMisskeyLogin(FALSE)
    \/ \E r \in Requests : TimelineRequest(r)
    \/ \E r \in Requests, st \in Responses : TimelineResponse(r, st)
    \/ \E r \in Requests, o \in RefreshOutcomes : RefreshResponse(r, o)
    \/ \E r \in Requests, st \in Responses : RetryResponse(r, st)

SpecAuth == Init /\ [][NextAuth]_vars

\* One call of fetchRelayList and what the bootstrap relays answer.
NextRelayList ==
    \/ FetchRelayList
    \/ \E t \in 1..MaxDocTime, tags \in RelayTagLists : RelayListPacket(t, tags)
    \/ \E t \in 1..MaxDocTime, c \in ContactContents : ContactListPacket(t, c)
    \/ ShortTimeoutFire
    \/ HardTimeoutFire
    \/ RelayListComplete

SpecRelayList == Init /\ [][NextRelayList]_vars

\* SpecRestart: a relay-only session that is stopped and started again
\* while the relay list and follow list of the first start are being fetched
NextRestart ==
    \/ HandleStart(FALSE)
    \/ HandleStop
    \/ HandleRestart
    \/ InitNostrDone(TRUE)
    \/ \E ok \in BOOLEAN : LateInitNostrDone(ok)
    \/ InitBlueskyLogin(FALSE)
    \/ InitMisskeyLogin(FALSE)
    \/ StartJoin
    \/ KickFire(FALSE)
    \/ UtteranceEnd(FALSE)
    \/ SyncAppStateRef
    \/ Relay

SpecRestart == Init /\ [][NextRestart]_vars

\* SpecLive: a relay-only session under the listener's commands, in which
\* every pending timer fires and every speech event is delivered
NextLive ==
    \/ HandleStart(FALSE)
    \/ HandlePause
    \/ HandleResume
    \/ HandleSkip
    \/ HandleMute
    \/ InitNostrDone(TRUE)
    \/ InitBlueskyLogin(FALSE)
    \/ InitMisskeyLogin(FALSE)
    \/ StartJoin
    \/ \E lim \in BOOLEAN : KickFire(lim)
    \/ \E lim \in BOOLEAN : MuteDwellFire(lim)
    \/ \E lim \in BOOLEAN : UtteranceEnd(lim)
    \/ \E lim \in BOOLEAN : UtteranceCancelled(lim)
    \/ ReadingTimeoutFire
    \/ Relay

TimersAndEventsArrive ==
    /\ WF_vars(\E lim \in BOOLEAN : KickFire(lim))
    /\ WF_vars(\E lim \in BOOLEAN : MuteDwellFire(lim))
    /\ WF_vars(\E lim \in BOOLEAN : UtteranceEnd(lim))
    /\ WF_vars(\E lim \in BOOLEAN : UtteranceCancelled(lim))

SpecLive == Init /\ [][NextLive]_vars /\ TimersAndEventsArrive

\* SpecTest: the debug post on top of a relay-only session
NextTest ==
    \/ HandleStart(FALSE)
    \/ HandleStop
    \/ InitNostrDone(TRUE)
    \/ InitBlueskyLogin(FALSE)
    \/ InitMisskeyLogin(FALSE)
    \/ StartJoin
    \/ Testpost(FALSE)
    \/ Tick
    \/ KickFire(FALSE)
    \/ UtteranceEnd(FALSE)
    \/ Relay

SpecTest == Init /\ [][NextTest]_vars

\* SpecCap: the relay source and bursts on the Bluesky timeline, no playback
NextCap ==
    \/ HandleStart(FALSE)
    \/ InitNostrDone(TRUE)
    \/ InitBlueskyLogin(TRUE)
    \/ InitBlueskyTimeline
    \/ InitMisskeyLogin(FALSE)
    \/ StartJoin
    \/ Relay
    \/ BskyBurst
    \/ Poll

SpecCap == Init /\ [][NextCap]_vars

\* SpecEvict: the Discord bridge repeats one message; the Bluesky timeline
\* bursts whenever everything held has been read; playback
NextEvict ==
    \/ HandleStart(TRUE)
    \/ InitNostrDone(FALSE)
    \/ InitBlueskyLogin(TRUE)
    \/ InitBlueskyTimeline
    \/ InitMisskeyLogin(FALSE)
    \/ StartJoin
    \/ KickFire(FALSE)
    \/ UtteranceEnd(FALSE)
    \/ Unread(notes) = {} /\ BskyBurst
    \/ Poll
    \/ StreamOpen("discord", 1)
    \/ StreamMessage("discord", 1, 1)

SpecEvict == Init /\ [][NextEvict]_vars

(***************************************************************************)
(* Properties.                                                             *)
(***************************************************************************)

\* C1: through every insertion path, the debug post included, the store
\* never holds two entries with the same id.
C1_NoDuplicateIds == NoDuplicateIds(notes)

\* C2: in every reachable state the store holds at most 200 notes, also
\* after an insertion made by a relay subscription in its replace phase.
C2_AtMostCap == Len(notes) <= StoreCap

\* C3: in every reachable state the store is sorted by created_at,
\* newest first.
C3_SortedDescending == IsSorted(notes)

\* C4: within one session no note id is started for playback (speech or
\* mute dwell) a second time.
C4_PlayedOnce == ~replayed

\* C5: no note is handed to the speech engine while the utterance of
\* another note is still in the engine's queue.
C5_OnePlaying == ~speakOverlap

\* C6: within a session, an id whose read flag has been true (it was
\* marked when its playback started) never has an entry with the flag false.
C6_ReadStaysRead == \A i \in 1..Len(notes) : notes[i].id \in played => notes[i].read

\* C7: an idle session stays idle until the start command: the only step
\* that leaves idle is the start command's step into loading.
C7_IdleUntilStart == [][appState = "idle" => appState' \in {"idle", "loading"}]_vars

\* C8: when the stop command returns no timer of the session is pending:
\* kick timer, mute dwell, reading-length timeout, poll interval, catch-up
\* silence timers, watchdogs and reconnect delays.
NoTimerPending ==
    /\ ~kickTimer
    /\ muteDwell = 0
    /\ ~timeoutId
    /\ pollIntervals = 0
    /\ \A i \in 1..MaxSubs : ~subs[i].eoseTimeout
    /\ \A a \in Adapters : /\ ~stream[a].watchdogTimeout
                           /\ stream[a].reconnectTimeout = 0
                           /\ stream[a].strayReconnects = 0

C8_StopClearsTimers == [][HandleStop => NoTimerPending']_vars

\* C9: the reconnect delay scheduled at the N-th consecutive close without
\* an open in between is min(1000 * 2^(N-1), 60000) ms.
C9_BackoffGrowth ==
    \A a \in Adapters :
        stream[a].reconnectTimeout # 0 /\ stream[a].closes >= 1 =>
            stream[a].reconnectTimeout =
                MinOf(BaseDelay * Pow2(stream[a].closes - 1), MAX_RECONNECT_DELAY)

\* C10: every adapter has at most one open or connecting socket, and its
\* socket reference designates that socket.
C10_SingleSocket ==
    \A a \in Adapters :
        /\ Cardinality(LiveSockets(stream[a])) <= 1
        /\ LiveSockets(stream[a]) # {} => stream[a].ws \in LiveSockets(stream[a])

\* C11: while no consumer is registered with an adapter (disconnectStream
\* ran and connectStream did not run since) none of its watchdog or
\* reconnect timers is pending.
C11_DisconnectedQuiet ==
    \A a \in Adapters :
        ~stream[a].callback =>
            /\ ~stream[a].watchdogTimeout
            /\ stream[a].reconnectTimeout = 0
            /\ stream[a].strayReconnects = 0

\* C12: no event flagged as a reply is ever held by the store.
C12_NoReplyStored == \A i \in 1..Len(notes) : ~notes[i].reply

\* C13: a task never inserts a note older than a note of the same source
\* that the store already holds (per-source deliveries arrive in
\* non-decreasing created_at order).
C13_PerSourceMonotonic ==
    [][\A j \in 1..Len(notes') :
          ~HasId(notes, notes'[j].id) =>
              \A i \in 1..Len(notes) :
                  notes[i].source = notes'[j].source =>
                      notes[i].created_at <= notes'[j].created_at]_vars

\* C14: the state changes only along idle -> loading -> running <-> paused
\* and back to idle; paused becomes running only by the resume command and
\* idle is left only by the start command.
AllowedTransitions ==
    {<<"idle", "loading">>, <<"loading", "running">>, <<"running", "paused">>,
     <<"paused", "running">>, <<"loading", "idle">>, <<"running", "idle">>,
     <<"paused", "idle">>}

C14_Transitions ==
    [][appState' # appState =>
          /\ <<appState, appState'>> \in AllowedTransitions
          /\ appState = "paused" /\ appState' = "running" => HandleResume
          /\ appState = "idle" => HandleStart(FALSE) \/ HandleStart(TRUE)]_vars

C16_WatchdogReconnect ==
    [][\A a \in Adapters :
         /\ WatchdogFire(a) =>
               \A s \in 1..MaxSockets :
                   stream[a].sockets[s] = "open" => stream'[a].sockets[s] = "closing"
         /\ \A s \in stream[a].byWatchdog :
               StreamClose(a, s) /\ stream[a].callback =>
                   stream'[a].reconnectTimeout = BaseDelay]_vars

\* the documents of a set with the greatest created_at
Newest(docs) == {d \in docs : \A e \in docs : e.created_at <= d.created_at}

ValidContacts(docs) == {d \in docs : d.content.valid}

\* C17 as stated: once resolved, the result is the relay URLs of a newest
\* kind 10002 document if one was received, else those of a newest kind 3
\* document if one was received, else the static fallback.
C17_PrefersRelayList ==
    relayFetch.resolved =>
        IF relayFetch.seen10002 # {}
        THEN \E d \in Newest(relayFetch.seen10002) :
                 relayFetch.result = AllRelays(d.tags)
        ELSE IF relayFetch.seen3 # {}
        THEN \E d \in Newest(relayFetch.seen3) :
                 relayFetch.result = ContactRelays(d.content)
        ELSE relayFetch.result = FallbackRelays

\* what doResolve answers for a kind 10002 list and a kind 3 list
Preferred(writable, contact) ==
    IF writable # <<>> THEN writable
    ELSE IF contact # <<>> THEN contact
    ELSE FallbackRelays

\* the URLs of the r tags of a document that carry no marker or "write"
Unmarked(tags) ==
    Urls(SelectSeq(tags, LAMBDA t : t.name = "r" /\ t.marker \in {"", "write"}))

WritableCandidates ==
    IF relayFetch.seen10002 = {} THEN {<<>>}
    ELSE {Unmarked(d.tags) : d \in Newest(relayFetch.seen10002)}

ContactCandidates ==
    IF ValidContacts(relayFetch.seen3) = {} THEN {<<>>}
    ELSE {ContactRelays(d.content) : d \in Newest(ValidContacts(relayFetch.seen3))}

\* C17 amended: once resolved, the result is the r tags not marked read of a
\* newest kind 10002 document received, if there are any; else the ws and wss
\* keys of a newest parseable kind 3 document received, if there are any;
\* else the static fallback. While unresolved after a kind 10002 document,
\* the 1 s timer is pending, and when it fires the call resolves.
C17_PrefersWritable ==
    /\ relayFetch.resolved =>
          \E w \in WritableCandidates, c \in ContactCandidates :
              relayFetch.result = Preferred(w, c)
    /\ relayFetch.seen10002 # {} /\ ~relayFetch.resolved => relayFetch.shortPending

\* C17 witness: a kind 10002 document with two unmarked entries was the only
\* document, and the 1 s timer resolved the call with those two relays
C17_TwoEntries ==
    /\ relayFetch.byShort
    /\ relayFetch.seen3 = {}
    /\ Len(relayFetch.result) = 2
    /\ \E d \in relayFetch.seen10002 :
          relayFetch.seen10002 = {d} /\ relayFetch.result = AllRelays(d.tags)

\* a relay event is delivered on a subscription still in its catch-up phase
CatchUpArrival ==
    \E i \in 1..MaxSubs, k \in 1..MaxNostrEvents :
        NostrEvent(i, k) /\ ~subs[i].eoseReceived

\* C18: when a note is inserted into a store that already holds 200 notes,
\* the store holds 200 notes afterwards and every note that left it is no
\* newer than any note that stayed, whatever its read state (the unread relay
\* candidate a catch-up arrival replaces is not counted as an eviction).  So
\* notes arriving in increasing createdAt order leave the 200 most recent.
C18_EvictsOldest ==
    [][(Len(notes) = StoreCap /\ \E j \in 1..Len(notes') : ~HasId(notes, notes'[j].id)) =>
          /\ Len(notes') = StoreCap
          /\ \A i \in 1..Len(notes) :
                ~HasId(notes', notes[i].id) =>
                    \/ CatchUpArrival /\ ~notes[i].read /\ notes[i].source = "nostr"
                    \/ \A j \in 1..Len(notes') :
                          notes[i].created_at <= notes'[j].created_at]_vars

\* C19: a timeline request calls refreshSession exactly once if its first
\* response was auth-expired and never otherwise; it fetches a second time
\* exactly once if that refresh succeeded and never otherwise; and it ends
\* with data only if its last response was a success, so with the empty
\* result when the refresh or the retry failed.
C19_OneRefreshOneRetry ==
    \A r \in Requests :
        LET q == bskyReq[r]
        IN  /\ q.refreshCalls = (IF q.expired THEN 1 ELSE 0)
            /\ q.fetches <= 2
            /\ q.fetches = 2 <=> q.refreshed
            /\ q.refreshed => q.expired
            /\ q.pc = "done" /\ q.result = "data" /\ q.expired => q.refreshed
            /\ q.pc = "done" => (q.result = "data" <=> q.status = "ok")
            /\ q.pc = "done" /\ q.status # "ok" => q.result = "empty"

\* C19 witness: a request got the auth-expired response, refreshed, retried
\* once and the retry failed
C19_RetryFailed ==
    \E r \in Requests :
        /\ bskyReq[r].pc = "done" /\ bskyReq[r].refreshed
        /\ bskyReq[r].result = "empty"

\* C20: npubEncode succeeds on every 64-character lower-case hex string, and
\* nip19Decode of its result has type npub and the same hex string as data.
C20_NpubRoundTrip ==
    /\ ~nip.thrown
    /\ nip.pc = "decoded" =>
          /\ nip.out.ok
          /\ nip.out.type = Npub
          /\ nip.out.data = nip.hex

\* C20 witness: a key whose bytes have the top bit set and a byte below 16
\* has gone through both functions
C20_Decoded ==
    /\ nip.pc = "decoded"
    /\ nip.hex[1] = "0" /\ nip.hex[3] = "f"

\* C21: whenever a step of the scheduler selects a note (marks it read in
\* place), that note's created_at is the smallest among the notes that were
\* unread in the store before the step.
C21_OldestUnreadFirst ==
    [][\A i \in 1..Len(notes) :
          /\ Len(notes') = Len(notes)
          /\ ~notes[i].read
          /\ notes'[i] = [notes[i] EXCEPT !.read = TRUE]
          => \A j \in Unread(notes) : notes[i].created_at <= notes[j].created_at]_vars

\* ids of the notes the store holds with the read flag set
ReadIds(s) == {s[i].id : i \in {j \in 1..Len(s) : s[j].read}}

\* the speech engine holds an utterance of note id
InQueue(id) == \E q \in 1..Len(synthQueue) : synthQueue[q] = id

\* a step that marks no note read and begins no playback
NothingStarted ==
    /\ ReadIds(notes') \subseteq ReadIds(notes)
    /\ played' \subseteq played
    /\ replayed' = replayed
    /\ \A q \in 1..Len(synthQueue') : InQueue(synthQueue'[q])

\* the utterance of the note in flight ends or fails
OwnUtteranceEnds ==
    /\ synthQueue # <<>>
    /\ Head(synthQueue) = currentNoteId
    /\ UtteranceEnd(TRUE) \/ UtteranceEnd(FALSE)

\* C22: while the note the core loop selected is being spoken (the guard is
\* held for it and its utterance is with the speech engine), every step other
\* than the end of that utterance marks no note read and hands nothing to the
\* speech engine.
C22_GuardHolds ==
    [][isProcessingRef /\ currentNoteId # NoNote /\ InQueue(currentNoteId)
          /\ ~OwnUtteranceEnds
       => NothingStarted]_vars

\* the playback of the note in flight ends: its utterance ends, or the only
\* pending completion is its mute dwell, or the error event of its cancelled
\* utterance
OwnPlaybackEnds ==
    \/ OwnUtteranceEnds
    \/ /\ ~InQueue(currentNoteId)
       /\ muteDwell = 1 /\ cancelPending = 0
       /\ MuteDwellFire(TRUE) \/ MuteDwellFire(FALSE)
    \/ /\ ~InQueue(currentNoteId)
       /\ muteDwell = 0 /\ cancelPending = 1
       /\ UtteranceCancelled(TRUE) \/ UtteranceCancelled(FALSE)

\* C23: the guard held for a note is released, or handed to another note,
\* only by the stop command or by the end of that note's own playback.
C23_ReleasedByOwnEnd ==
    [][isProcessingRef /\ currentNoteId # NoNote
          /\ (~isProcessingRef' \/ currentNoteId' # currentNoteId)
       => HandleStop \/ OwnPlaybackEnds]_vars

\* positions of the unread notes of the relay protocol
UnreadRelay(s) == {j \in Unread(s) : s[j].source = "nostr"}

\* C24: while a relay subscription is active and has not yet seen one second
\* of silence, the store holds at most one unread relay note, and that note
\* carries the greatest created_at the subscription has seen.
C24_SingleCandidate ==
    \A i \in 1..MaxSubs :
        subs[i].active /\ ~subs[i].eoseReceived =>
            /\ Cardinality(UnreadRelay(notes)) <= 1
            /\ \A j \in UnreadRelay(notes) :
                   notes[j].created_at = subs[i].newestTimestamp

\* the events a relay can deliver in SpecRelay
RelayEvents == {NostrNote(k) : k \in 1..MaxNostrEvents}
                   \cup {NostrReply(k) : k \in 1..MaxNostrEvents}

\* C25: a subscription becomes caught up only when its one-second silence
\* timer, armed by an event, fires; an event received by a caught-up
\* subscription changes the store if and only if its created_at is strictly
\* greater than every created_at the subscription has received and its id is
\* not stored, and then it is added as an unread note while every note held
\* before stays.
C25_CaughtUp ==
    [][\A i \in 1..MaxSubs :
          /\ ~subs[i].eoseReceived /\ subs'[i].eoseReceived =>
                /\ subs[i].eoseTimeout
                /\ subs[i].maxSeen > 0
                /\ EoseTimeoutFire(i)
          /\ \A e \in RelayEvents :
                subs[i].eoseReceived /\ RelayNext(i, e) =>
                    IF e.created_at > subs[i].maxSeen /\ ~HasId(notes, e.id)
                    THEN /\ Len(notes') = Len(notes) + 1
                         /\ \A j \in 1..Len(notes) :
                                \E m \in 1..Len(notes') : notes'[m] = notes[j]
                         /\ \E m \in 1..Len(notes') : notes'[m] = e
                    ELSE notes' = notes]_vars

\* C25 witness: a caught-up subscription, and the store holds two unread
\* relay notes (the candidate of the catch-up phase and one added after it)
C25_Appended ==
    \E i \in 1..MaxSubs :
        /\ subs[i].active /\ subs[i].eoseReceived
        /\ Cardinality(UnreadRelay(notes)) >= 2

\* a step that marks a note read or begins a playback
SomethingStarted == ~NothingStarted

\* C26: a step marks a note read or begins a playback only if the state is
\* running when the step is taken (and so never while it is paused or idle);
\* in particular the end of a playback starts the next note only then.
C26_OnlyWhileRunning ==
    [][SomethingStarted => appState = "running" /\ appStateRef = "running"]_vars

\* the store holds relay event k unread / read
HeldUnread(k) == \E j \in 1..Len(notes) : notes[j].id = <<"nostr", k>> /\ ~notes[j].read

HeldRead(k) == \E j \in 1..Len(notes) : notes[j].id = <<"nostr", k>> /\ notes[j].read

\* the session is not running, or the speech engine has been paused
NotPlaying == appState # "running" \/ synthPaused

\* C27 as stated: in a session that stays running, with timers firing and
\* utterances ending, every unread note of the store is eventually marked
\* read (the store of this specification never reaches its cap).
C27_EventuallyRead ==
    \A k \in 1..MaxNostrEvents : HeldUnread(k) ~> (HeldRead(k) \/ NotPlaying)

\* C27 amended: ... every unread note of the store is eventually marked read
\* or leaves the store (by the cap or replaced by a newer candidate of the
\* catching-up relay subscription); the scheduler does not stall.
C27_ReadOrGone ==
    \A k \in 1..MaxNostrEvents : HeldUnread(k) ~> (~HeldUnread(k) \/ NotPlaying)

\* C27 witness: both relay events are held and have been read in a running session
C27_AllRead ==
    /\ appState = "running"
    /\ Len(notes) >= 2
    /\ Unread(notes) = {}

\* C28: while the session is loading, running or paused, no qualifying note
\* that a streaming adapter delivers to its registered consumer, and whose id
\* the store does not hold, is left out of the store.
C28_AllInserted == ~discarded

\* C29: while the state is idle (before the first start and from a stop to
\* the next start) the store is empty.
C29_EmptyWhileIdle == appState = "idle" => notes = <<>>

\* C30: the state is not loading any more once a source has put a note into
\* the store or its init function has returned true.
C30_RunningAtFirstSource ==
    notes # <<>> \/ (\E src \in InitSources : initPc[src] = "true")
        => appState # "loading"

\* the continuation of handleStart after Promise.allSettled has found an
\* init function that returned true
JoinFoundSource == StartJoin /\ \E src \in InitSources : initPc[src] = "true"

\* C31: when the four init functions of a start have settled, the state
\* becomes idle (no sources available) if none of them returned true, and
\* running if one of them did.
C31_JoinVerdict ==
    [][StartJoin => appState' = IF JoinFoundSource THEN "running" ELSE "idle"]_vars

\* a step in which the core loop starts the playback of a note
PlaybackStarts ==
    \/ ~(played' \subseteq played)
    \/ replayed' /\ ~replayed
    \/ currentNoteId' # NoNote /\ currentNoteId' # currentNoteId

\* nothing is handed to the speech engine
EngineNotInvoked == \A q \in 1..Len(synthQueue') : InQueue(synthQueue'[q])

\* the note marked read in place is the oldest of the unread notes
OldestMarked ==
    \A i \in 1..Len(notes) :
        /\ Len(notes') = Len(notes)
        /\ ~notes[i].read
        /\ notes'[i] = [notes[i] EXCEPT !.read = TRUE]
        => \A j \in Unread(notes) : notes[i].created_at <= notes[j].created_at

\* C32: while mute is on the speech engine is never invoked, and a step that
\* starts a note marks it read, arms the 3 s dwell timer for it, takes the
\* oldest unread note, and is, when another note was in flight, the end of
\* that note's own dwell (or of its cancelled utterance).
C32_MuteAdvances ==
    [][isMuted =>
          /\ EngineNotInvoked
          /\ PlaybackStarts =>
                /\ currentNoteId' \in ReadIds(notes')
                /\ muteDwell' >= 1
                /\ OldestMarked
                /\ isProcessingRef /\ currentNoteId # NoNote => OwnPlaybackEnds]_vars

\* C33: the completion callback of a speech invocation is invoked at most
\* once; when the utterance in flight ends and nothing new is started no
\* reading-length timer stays pending; when the reading-length timer fires
\* the speech engine's queue is cancelled.
C33_CallbackOnce ==
    [][/\ callbackRuns' <= 1
       /\ OwnUtteranceEnds /\ ~PlaybackStarts => ~timeoutId'
       /\ ReadingTimeoutFire => synthQueue' = <<>>]_vars

\* the event delivered in this step belongs to an utterance that is not the
\* one of the latest speak() call, whose utterance is still with the engine
StaleUtteranceEvent ==
    \/ /\ synthQueue # <<>>
       /\ UtteranceCancelled(TRUE) \/ UtteranceCancelled(FALSE)
    \/ /\ Len(synthQueue) >= 2
       /\ UtteranceEnd(TRUE) \/ UtteranceEnd(FALSE)

\* C34: the end or error event of an utterance that was cancelled or
\* superseded leaves the later utterance's callback uncalled, its
\* reading-length timer pending and the reading flag set.
C34_StaleEventIgnored ==
    [][StaleUtteranceEvent =>
          /\ onEndCallback' = onEndCallback /\ callbackRuns' = callbackRuns
          /\ timeoutId' = timeoutId
          /\ isReading' = isReading
          /\ isProcessingRef' = isProcessingRef /\ currentNoteId' = currentNoteId]_vars

\* a reconnect timer of adapter a is pending
ReconnectPending(a) ==
    stream[a].reconnectTimeout # 0 \/ stream[a].strayReconnects > 0

\* adapter a has a socket whose close event is still to come
HasSocket(a) == \E s \in 1..MaxSockets : stream[a].sockets[s] # "free"

\* C35: an adapter with a registered consumer always has a socket or a
\* pending reconnect timer; the close event of a socket, arriving while a
\* consumer is registered, leaves a reconnect timer pending; and an adapter
\* with a registered consumer and no open or connecting socket eventually has
\* one again, unless the consumer is unregistered.
C35_Reconnects ==
    /\ [](\A a \in Adapters : stream[a].callback => HasSocket(a) \/ ReconnectPending(a))
    /\ [][\A a \in Adapters : \A s \in 1..MaxSockets :
             StreamClose(a, s) /\ stream[a].callback => ReconnectPending(a)']_vars
    /\ \A a \in Adapters :
           (stream[a].callback /\ LiveSockets(stream[a]) = {})
               ~> (LiveSockets(stream[a]) # {} \/ ~stream[a].callback)

\* a socket of the bridge adapter has closed and a new one is connecting
C35_Reconnected ==
    /\ stream["discord"].callback
    /\ stream["discord"].closes >= 1
    /\ LiveSockets(stream["discord"]) # {}

\* C36: a payload that cannot be parsed, has a type the adapter does not
\* handle, or cannot be built into a message leaves the store and the App
\* state as they are (the consumer is not called), closes no socket, schedules
\* no reconnect and leaves the watchdog timer armed.
C36_JunkDropped ==
    [][\A a \in Adapters : \A s \in 1..MaxSockets : \A kind \in JunkKinds :
          StreamJunk(a, s, kind) =>
              /\ UNCHANGED <<appVars, speechVars, obsVars>>
              /\ stream'[a].sockets = stream[a].sockets
              /\ stream'[a].ws = stream[a].ws
              /\ stream'[a].callback = stream[a].callback
              /\ stream'[a].reconnectTimeout = stream[a].reconnectTimeout
              /\ stream'[a].strayReconnects = stream[a].strayReconnects
              /\ stream'[a].reconnectAttempts = stream[a].reconnectAttempts
              /\ stream'[a].watchdogTimeout]_vars

\* a payload was dropped, the socket it came on is open, the watchdog is
\* armed and messages are still being stored
C36_StillOpen ==
    /\ stream["discord"].dropped
    /\ stream["discord"].callback
    /\ stream["discord"].ws # 0
    /\ stream["discord"].sockets[stream["discord"].ws] = "open"
    /\ stream["discord"].watchdogTimeout
    /\ notes # <<>>

\* C37: while fetchRelayList has recorded a relay-list or a contact-list
\* document and has not resolved, its 1 s timer is pending.
C37_EarlyExitArmed ==
    /\ relayFetch.called /\ ~relayFetch.resolved
    /\ relayFetch.kind10002Event.has \/ relayFetch.kind3Event.has
    => relayFetch.shortPending

\* the outcomes after which the login may be attempted again
Retriable == {"rateLimited", "serverError"}

\* C38: a login call sends at most five createSession requests, the delays
\* it waits are 1 s, 2 s, 4 s, 8 s in this order, and every outcome that was
\* followed by a wait is a rate-limit or a server-error response.
C38_RetryPolicy ==
    /\ loginCall.requests <= 5
    /\ Len(loginCall.waits) <= 4
    /\ \A i \in 1..Len(loginCall.waits) : loginCall.waits[i] = 1000 * Pow2(i - 1)
    /\ \A i \in 1..Len(loginCall.responses) :
           i < Len(loginCall.responses) \/ loginCall.pc = "waiting"
               => loginCall.responses[i] \in Retriable

\* C39: when a poll tick has fetched and processed the timeline, a peek
\* against the same remote timeline with the new lower bound is negative, so
\* the next tick fetches nothing unless the timeline has changed.
C39_PeekNegativeAfterFetch ==
    [][PollFetchDone => peekLatest(bskyCount', blueskyLastFetch') = 0]_vars

\* the sources of a language that have one to give
AuthorAvailable == langCall.authorData # "none"
NoteAvailable == langCall.detected \in DOMAIN francToBcp47

\* the first available language in the order override, author, note, fixed
\* language, browser
FirstAvailable ==
    IF langCall.forcedLang # "" THEN langCall.forcedLang
    ELSE IF AuthorAvailable THEN langCall.authorData
    ELSE IF NoteAvailable THEN francToBcp47[langCall.detected]
    ELSE IF langCall.readingLanguageSpecific # "" THEN langCall.readingLanguageSpecific
    ELSE Head(langCall.navigatorLanguage)

\* C40: the language a note is read in is the first available of the
\* session-wide override, the author's detected language, the note's detected
\* language, the configured fixed language and the browser's language.
C40_PriorityOrder ==
    langCall.pc = "spoken" => langCall.lang = FirstAvailable

====
